---- MODULE Spec2Model ----
(***************************************************************************)
(* EduPace: the outcome score propagation engine of edupace_app/utils.py   *)
(* (calculate_lo_score, calculate_po_score, get_course_graph_data) over    *)
(* the relational store of edupace_app/models.py.                          *)
(*                                                                         *)
(* Numbers.  AssessmentGrade.grade, AssessmentToLO.weight and LOToPO.weight*)
(* are FloatFields and the aggregator accumulates in Python floats         *)
(* (total_weighted_score = 0.0), i.e. binary floating point with           *)
(* round-to-nearest, ties-to-even after every *, + and /.  The model keeps *)
(* that rounding rule and bounds the significand to MantBits bits (a       *)
(* Python float has 53).  A float is the reduced fraction <<n, d>> it      *)
(* denotes, d a power of two.                                              *)
(***************************************************************************)
EXTENDS Integers, Sequences, FiniteSets, TLC

\* Bits of the significand of a float in the model.
MantBits == 9

\* Python's None where a float is expected: the empty tuple (a float is a pair).
None == <<>>

Pow2(k) == 2 ^ k

\* The reduced form of the dyadic fraction n/d (d a power of two).
RECURSIVE Reduce(_, _)
Reduce(n, d) ==
    IF n = 0 THEN <<0, 1>>
    ELSE IF d > 1 /\ n % 2 = 0 THEN Reduce(n \div 2, d \div 2)
    ELSE <<n, d>>

\* Least s >= 0 with n * 2^s >= lo.
RECURSIVE ShiftUp(_, _, _)
ShiftUp(n, lo, s) == IF n * Pow2(s) >= lo THEN s ELSE ShiftUp(n, lo, s + 1)

\* Least t >= 0 with n < hi * 2^t.
RECURSIVE ShiftDown(_, _, _)
ShiftDown(n, hi, t) == IF n < hi * Pow2(t) THEN t ELSE ShiftDown(n, hi, t + 1)

\* Quotient of num by den rounded to the nearest integer, ties to even.
RoundHalfEven(num, den) ==
    LET q == num \div den
        r == num % den
    IN  IF 2 * r > den \/ (2 * r = den /\ q % 2 = 1) THEN q + 1 ELSE q

\* The float nearest the rational n/d (n >= 0, d > 0): what float("0.3")
\* stores and what every arithmetic operation on floats returns.
FRound(n, d) ==
    IF n = 0 THEN <<0, 1>>
    ELSE IF n >= d * Pow2(MantBits)
    THEN LET t == ShiftDown(n, d * Pow2(MantBits), 0)
         IN  <<RoundHalfEven(n, d * Pow2(t)) * Pow2(t), 1>>
    ELSE LET s == ShiftUp(n, d * Pow2(MantBits - 1), 0)
         IN  Reduce(RoundHalfEven(n * Pow2(s), d), Pow2(s))

Max(x, y) == IF x >= y THEN x ELSE y

\* Python's float *, + and /.
FMul(a, b) == FRound(a[1] * b[1], a[2] * b[2])

FAdd(a, b) ==
    LET D == Max(a[2], b[2])
    IN  FRound(a[1] * (D \div a[2]) + b[1] * (D \div b[2]), D)

FDiv(a, b) == FRound(a[1] * b[2], a[2] * b[1])

FLeq(a, b) == a[1] * b[2] <= b[1] * a[2]

FZero == <<0, 1>>

\* sum(seq) of Python floats, left to right from 0.
RECURSIVE FSum(_)
FSum(seq) ==
    IF seq = <<>> THEN FZero
    ELSE FAdd(FSum(SubSeq(seq, 1, Len(seq) - 1)), seq[Len(seq)])


(***************************************************************************)
(* The store.  Rows are named by primary key.  Course, Student, Teacher    *)
(* and AcademicBoard rows and the course of each Assessment and            *)
(* LearningOutcome are fixed tables here: no operation below changes them. *)
(***************************************************************************)
Courses == {1, 2}
Students == {1, 2}
AssessmentIds == {1, 2}
LearningOutcomeIds == {1, 2, 3}
ProgramOutcomeIds == {1, 2}

\* Assessment.course and LearningOutcome.course (ForeignKey).
AssessmentCourse(a) == IF a = 4 THEN 2 ELSE 1
LearningOutcomeCourse(l) == IF l \in {3, 5} THEN 2 ELSE 1

\* Teacher.courses and Student.courses (ManyToManyField).
Teachers == {"t1", "t2", "t3"}
TeacherCourses(t) == IF t = "t1" THEN {1, 2} ELSE IF t = "t3" THEN {1} ELSE {}
StudentCourses(s) == IF s = 1 THEN {1, 2} ELSE {1}
\* AcademicBoard members and ProgramOutcome.academic_board.
Boards == {"b1", "b2"}
ProgramOutcomeBoard(p) == IF p = 3 THEN "b2" ELSE "b1"

\* AssessmentGrade.grade: MinValueValidator(0.0), MaxValueValidator(100.0).
GradeMin == 0
GradeMax == 100
\* What a form's FloatField holds after cleaning the posted decimal numeral.
G70 == FRound(70, 1)
G100 == FRound(100, 1)
W0 == FRound(0, 1)
W3 == FRound(3, 10)
W6 == FRound(6, 10)

VARIABLES
    assessments,        \* Assessment rows (primary keys)
    learning_outcomes,  \* LearningOutcome rows
    program_outcomes,   \* ProgramOutcome rows
    a2lo,               \* AssessmentToLO rows: <<assessment, learning_outcome>> -> weight
    lo2po,              \* LOToPO rows: <<learning_outcome, program_outcome>> -> weight
    agrades,            \* AssessmentGrade rows: <<assessment, student>> -> grade
    last_call,          \* the read call made since the last write, with what it returned
    grades,             \* Grade rows: <<student, course, assessment_type, semester,
                        \*   academic_year>> -> [grade, percentage, created_by]
    is_locked,          \* Course.is_locked of each course
    last_request,       \* the last teacher request on grades or learning outcomes
    last_write,         \* per <<student, course, semester, academic_year>>: the values
                        \*   passed to the last update_or_create that returned
    session,            \* the user of the browser's session (request.user)
    response,           \* the last request of the browser and the response to it
    descriptions,       \* the description of each LearningOutcome, Assessment and
                        \*   ProgramOutcome row: <<kind, row>> -> text
    writers             \* the requests that write Grade rows side by side: what each
                        \*   writes and where in update_or_create it is

store == <<assessments, learning_outcomes, program_outcomes, a2lo, lo2po, agrades>>
gradebook == <<grades, is_locked, last_request, last_write, writers>>
site == <<session, response, descriptions>>
vars == <<assessments, learning_outcomes, program_outcomes, a2lo, lo2po, agrades, last_call,
          grades, is_locked, last_request, last_write, session, response, descriptions,
          writers>>

\* No read call since the last write.
NoCall ==
    [fn |-> "none", args |-> <<>>, result |-> None, again |-> FALSE,
     locks |-> <<>>, relocked |-> FALSE]

\* The record of a read call that returned `result`; `again` tells that the
\* call before it, with no write in between, was the same call.  `locks` is
\* is_locked of the courses at the call, and `relocked` tells that the call
\* before it was the same call made under other locks.
returned(fn, args, result) ==
    [fn |-> fn, args |-> args, result |-> result,
     again |-> last_call.fn = fn /\ last_call.args = args,
     locks |-> is_locked,
     relocked |-> /\ last_call.fn = fn /\ last_call.args = args
                  /\ last_call.locks # is_locked]

\* Lexicographic order on tuples of integers of equal length.
RECURSIVE LexLeq(_, _)
LexLeq(k1, k2) ==
    IF k1 = <<>> THEN TRUE
    ELSE IF Head(k1) # Head(k2) THEN Head(k1) < Head(k2)
    ELSE LexLeq(Tail(k1), Tail(k2))

\* The elements of the finite set S in ascending order of key[x].
RECURSIVE SortByKey(_, _)
SortByKey(S, key) ==
    IF S = {} THEN <<>>
    ELSE LET m == CHOOSE x \in S : \A y \in S : LexLeq(key[x], key[y])
         IN  <<m>> \o SortByKey(S \ {m}, key)

\* Meta.ordering: Assessment by (course, name), LearningOutcome by
\* (course, code), ProgramOutcome by (academic_board, code); a row's name
\* or code sorts as its primary key does, and there is one board.
AssessmentKey(a) == <<AssessmentCourse(a), a>>
LearningOutcomeKey(l) == <<LearningOutcomeCourse(l), l>>
ProgramOutcomeKey(p) == <<p>>
\* AssessmentToLO by (assessment, learning_outcome), LOToPO by
\* (learning_outcome, program_outcome).
OrderedA2LO(S) ==
    SortByKey(S, [e \in S |-> AssessmentKey(e[1]) \o LearningOutcomeKey(e[2])])
OrderedLO2PO(S) ==
    SortByKey(S, [e \in S |-> LearningOutcomeKey(e[1]) \o ProgramOutcomeKey(e[2])])
OrderedAssessments(S) == SortByKey(S, [a \in S |-> AssessmentKey(a)])
OrderedLearningOutcomes(S) == SortByKey(S, [l \in S |-> LearningOutcomeKey(l)])
OrderedProgramOutcomes(S) == SortByKey(S, [q \in S |-> ProgramOutcomeKey(q)])

(***************************************************************************)
(* Score Aggregator: utils.calculate_lo_score, utils.calculate_po_score.   *)
(***************************************************************************)

\* Mutant of lo_loop: a missing AssessmentGrade counts as grade 0 instead of
\* being skipped.
RECURSIVE lo_loop_missing_as_zero(_, _, _, _)
lo_loop_missing_as_zero(connections, i, student, acc) ==
    IF i > Len(connections) THEN acc
    ELSE LET connection == connections[i]
             assessment == connection[1]
             grade_value == IF <<assessment, student>> \in DOMAIN agrades
                            THEN agrades[<<assessment, student>>] ELSE FZero
             weight == a2lo[connection]
         IN  lo_loop_missing_as_zero(connections, i + 1, student,
                 <<FAdd(acc[1], FMul(grade_value, weight)), FAdd(acc[2], weight)>>)

\* The for loop of calculate_lo_score from connection i on; acc is
\* <<total_weighted_score, total_weight>>.
RECURSIVE lo_loop(_, _, _, _)
lo_loop(connections, i, student, acc) ==
    IF i > Len(connections) THEN acc
    ELSE LET connection == connections[i]
             assessment == connection[1]
         IN  IF <<assessment, student>> \in DOMAIN agrades
             THEN LET grade_value == agrades[<<assessment, student>>]
                      weight == a2lo[connection]
                  IN  lo_loop(connections, i + 1, student,
                              <<FAdd(acc[1], FMul(grade_value, weight)),
                                FAdd(acc[2], weight)>>)
             ELSE \* AssessmentGrade.DoesNotExist: continue
                  lo_loop(connections, i + 1, student, acc)

\* Mutant of calculate_lo_score: 0.0 instead of None when nothing contributed.
calculate_lo_score_zero_for_none(student, learning_outcome) ==
    LET connections ==
            OrderedA2LO({e \in DOMAIN a2lo : e[2] = learning_outcome})
        acc == lo_loop(connections, 1, student, <<FZero, FZero>>)
    IN  IF acc[2] = FZero THEN FZero ELSE FDiv(acc[1], acc[2])

\* Mutant of calculate_lo_score: no score is computed for a learning outcome
\* of a locked course.
calculate_lo_score_unless_locked(student, learning_outcome) ==
    LET connections ==
            OrderedA2LO({e \in DOMAIN a2lo : e[2] = learning_outcome})
    IN  IF connections = <<>> \/ is_locked[LearningOutcomeCourse(learning_outcome)]
        THEN None
        ELSE LET acc == lo_loop(connections, 1, student, <<FZero, FZero>>)
             IN  IF acc[2] = FZero THEN None ELSE FDiv(acc[1], acc[2])

calculate_lo_score(student, learning_outcome) ==
    LET connections ==
            OrderedA2LO({e \in DOMAIN a2lo : e[2] = learning_outcome})
    IN  IF connections = <<>> THEN None
        ELSE LET acc == lo_loop(connections, 1, student, <<FZero, FZero>>)
             IN  IF acc[2] = FZero THEN None ELSE FDiv(acc[1], acc[2])

RECURSIVE po_loop(_, _, _, _)
po_loop(connections, i, student, acc) ==
    IF i > Len(connections) THEN acc
    ELSE LET connection == connections[i]
             lo_score == calculate_lo_score(student, connection[1])
         IN  IF lo_score # None
             THEN LET weight == lo2po[connection]
                  IN  po_loop(connections, i + 1, student,
                              <<FAdd(acc[1], FMul(lo_score, weight)),
                                FAdd(acc[2], weight)>>)
             ELSE po_loop(connections, i + 1, student, acc)

\* Mutant of calculate_po_score: one flattened weighted average over the
\* assessment grades behind the program outcome, each grade weighted by the
\* product of the two edge weights on its path.
calculate_po_score_flattened(student, program_outcome) ==
    LET paths == {<<e[1], f[1]>> : e \in DOMAIN a2lo, f \in DOMAIN lo2po}
        used == {q \in paths :
                    /\ <<q[1], q[2]>> \in DOMAIN a2lo
                    /\ <<q[2], program_outcome>> \in DOMAIN lo2po
                    /\ <<q[1], student>> \in DOMAIN agrades}
        ordered == SortByKey(used, [q \in used |->
                       LearningOutcomeKey(q[2]) \o AssessmentKey(q[1])])
        w == [i \in 1..Len(ordered) |->
                 FMul(a2lo[<<ordered[i][1], ordered[i][2]>>],
                      lo2po[<<ordered[i][2], program_outcome>>])]
        num == [i \in 1..Len(ordered) |->
                 FMul(agrades[<<ordered[i][1], student>>], w[i])]
        total_weighted_score == FSum(num)
        total_weight == FSum(w)
    IN  IF total_weight = FZero THEN None
        ELSE FDiv(total_weighted_score, total_weight)

\* Mutant of calculate_po_score: 0.0 instead of None when nothing contributed.
calculate_po_score_zero_for_none(student, program_outcome) ==
    LET connections ==
            OrderedLO2PO({e \in DOMAIN lo2po : e[2] = program_outcome})
        acc == po_loop(connections, 1, student, <<FZero, FZero>>)
    IN  IF acc[2] = FZero THEN FZero ELSE FDiv(acc[1], acc[2])

calculate_po_score(student, program_outcome) ==
    LET connections ==
            OrderedLO2PO({e \in DOMAIN lo2po : e[2] = program_outcome})
    IN  IF connections = <<>> THEN None
        ELSE LET acc == po_loop(connections, 1, student, <<FZero, FZero>>)
             IN  IF acc[2] = FZero THEN None ELSE FDiv(acc[1], acc[2])


(***************************************************************************)
(* Graph Assembler: utils.get_course_graph_data.  A node is                *)
(* [id, type, data], data a record that has the key "grade" or "score"     *)
(* only when the code sets it; an edge is [id, source, target, type,       *)
(* weight].  Ids are the f-string's parts.  The display-only members       *)
(* (label, description, weight_in_course) are left out.                    *)
(***************************************************************************)

\* student=None
NoStudent == 0

assessment_node(assessment, student) ==
    LET node_data == [id |-> <<"assessment", assessment>>,
                      type |-> "assessment",
                      data |-> [assessment_id |-> assessment]]
    IN  IF student # NoStudent /\ <<assessment, student>> \in DOMAIN agrades
        THEN [node_data EXCEPT
                 !.data = @ @@ [grade |-> agrades[<<assessment, student>>]]]
        ELSE node_data

\* Mutant of lo_node: a learning outcome without a score gets 0.0.
lo_node_placeholder(lo, student) ==
    LET node_data == [id |-> <<"lo", lo>>,
                      type |-> "learning_outcome",
                      data |-> [lo_id |-> lo]]
        lo_score == calculate_lo_score(student, lo)
    IN  IF student # NoStudent
        THEN [node_data EXCEPT !.data = @ @@
                 [score |-> IF lo_score # None THEN lo_score ELSE FZero]]
        ELSE node_data

lo_node(lo, student) ==
    LET node_data == [id |-> <<"lo", lo>>,
                      type |-> "learning_outcome",
                      data |-> [lo_id |-> lo]]
        lo_score == calculate_lo_score(student, lo)
    IN  IF student # NoStudent /\ lo_score # None
        THEN [node_data EXCEPT !.data = @ @@ [score |-> lo_score]]
        ELSE node_data

po_node(po, student) ==
    LET node_data == [id |-> <<"po", po>>,
                      type |-> "program_outcome",
                      data |-> [po_id |-> po]]
        po_score == calculate_po_score(student, po)
    IN  IF student # NoStudent /\ po_score # None
        THEN [node_data EXCEPT !.data = @ @@ [score |-> po_score]]
        ELSE node_data

assessment_to_lo_edge(edge) ==
    [id |-> <<"edge_assessment", edge[1], "lo", edge[2]>>,
     source |-> <<"assessment", edge[1]>>,
     target |-> <<"lo", edge[2]>>,
     type |-> "assessment_to_lo",
     weight |-> a2lo[edge]]

lo_to_po_edge(edge) ==
    [id |-> <<"edge_lo", edge[1], "po", edge[2]>>,
     source |-> <<"lo", edge[1]>>,
     target |-> <<"po", edge[2]>>,
     type |-> "lo_to_po",
     weight |-> lo2po[edge]]

\* course.assessments.all(), course.learning_outcomes.all()
course_assessments(course) ==
    OrderedAssessments({a \in assessments : AssessmentCourse(a) = course})
course_learning_outcomes(course) ==
    OrderedLearningOutcomes(
        {l \in learning_outcomes : LearningOutcomeCourse(l) = course})
\* Mutant of course_assessment_to_lo: edges of weight 0 are left out.
course_assessment_to_lo_weighted(course) ==
    OrderedA2LO({e \in DOMAIN a2lo :
                    AssessmentCourse(e[1]) = course /\ a2lo[e] # FZero})

\* LOToPO.objects.filter(learning_outcome__course=course)
course_lo_to_po(course) ==
    OrderedLO2PO({e \in DOMAIN lo2po : LearningOutcomeCourse(e[1]) = course})
\* AssessmentToLO.objects.filter(assessment__course=course)
course_assessment_to_lo(course) ==
    OrderedA2LO({e \in DOMAIN a2lo : AssessmentCourse(e[1]) = course})

\* Mutant of course_pos: a list with one entry per connection.
course_pos_per_connection(course) ==
    LET po_connections == course_lo_to_po(course)
    IN  [i \in 1..Len(po_connections) |-> po_connections[i][2]]

\* pos = set(); pos.add(conn.program_outcome): a Python set of rows, which
\* hash by primary key; it is iterated here in primary-key order.
course_pos(course) ==
    LET po_connections == course_lo_to_po(course)
    IN  OrderedProgramOutcomes(
            {po_connections[i][2] : i \in 1..Len(po_connections)})

get_course_graph_data(course, student) ==
    LET as == course_assessments(course)
        los == course_learning_outcomes(course)
        pos == course_pos(course)
        a_edges == course_assessment_to_lo(course)
        p_edges == course_lo_to_po(course)
    IN  [nodes |->
            [i \in 1..Len(as) |-> assessment_node(as[i], student)]
            \o [i \in 1..Len(los) |-> lo_node(los[i], student)]
            \o [i \in 1..Len(pos) |-> po_node(pos[i], student)],
         edges |->
            [i \in 1..Len(a_edges) |-> assessment_to_lo_edge(a_edges[i])]
            \o [i \in 1..Len(p_edges) |-> lo_to_po_edge(p_edges[i])]]


(***************************************************************************)
(* Requests.  A refused request redirects and changes nothing, so each     *)
(* action is the accepted POST.  The posted forms are drawn from small     *)
(* sets of (row, row, value) triples.                                      *)
(***************************************************************************)

\* (assessment, student, grade) of an AssessmentGradeForm
AssessmentGradePosts ==
    {<<1, 1, G100>>, <<2, 1, G70>>, <<2, 1, G100>>}
\* (assessment, learning_outcome, weight) of an AssessmentToLOForm
AssessmentToLOPosts ==
    {<<1, 1, W0>>, <<1, 1, W3>>, <<2, 1, W6>>, <<2, 2, W3>>}
\* the same, saved in the admin site (AssessmentToLOAdmin)
AssessmentToLOAdminPosts == {<<1, 3, W3>>}
\* (learning_outcome, program_outcome, weight) of a LOToPOForm
LOToPOPosts == {<<1, 1, W0>>, <<1, 1, W3>>, <<2, 1, W6>>, <<3, 2, W3>>}

\* MinValueValidator / MaxValueValidator of the model fields
valid_grade(g) == FLeq(FRound(GradeMin, 1), g) /\ FLeq(g, FRound(GradeMax, 1))
valid_weight(w) == FLeq(FZero, w)

\* Model.objects.update_or_create(<key>, defaults={<field>: value})
update_or_create(table, key, value) ==
    [k \in DOMAIN table \cup {key} |-> IF k = key THEN value ELSE table[k]]

\* row.delete() of a row of `table`
delete_row(table, key) == [k \in DOMAIN table \ {key} |-> table[k]]

add_assessment_grade(user, course, post) ==
    /\ user \in Teachers
    /\ course \in TeacherCourses(user)
    /\ post[1] \in assessments /\ AssessmentCourse(post[1]) = course
    /\ course \in StudentCourses(post[2])
    /\ valid_grade(post[3])
    /\ agrades' = update_or_create(agrades, <<post[1], post[2]>>, post[3])
    /\ last_call' = NoCall
    /\ UNCHANGED <<assessments, learning_outcomes, program_outcomes, a2lo, lo2po>>
    /\ UNCHANGED <<gradebook, site>>

connect_assessment_to_lo(user, course, post) ==
    /\ user \in Teachers
    /\ course \in TeacherCourses(user)
    /\ post[1] \in assessments /\ AssessmentCourse(post[1]) = course
    /\ post[2] \in learning_outcomes /\ LearningOutcomeCourse(post[2]) = course
    /\ valid_weight(post[3])
    /\ a2lo' = update_or_create(a2lo, <<post[1], post[2]>>, post[3])
    /\ last_call' = NoCall
    /\ UNCHANGED <<assessments, learning_outcomes, program_outcomes, lo2po, agrades>>
    /\ UNCHANGED <<gradebook, site>>

\* The admin's add form: any assessment with any learning outcome; the
\* unique_together pair must be new.
admin_add_assessment_to_lo(post) ==
    /\ post[1] \in assessments
    /\ post[2] \in learning_outcomes
    /\ valid_weight(post[3])
    /\ <<post[1], post[2]>> \notin DOMAIN a2lo
    /\ a2lo' = update_or_create(a2lo, <<post[1], post[2]>>, post[3])
    /\ last_call' = NoCall
    /\ UNCHANGED <<assessments, learning_outcomes, program_outcomes, lo2po, agrades>>
    /\ UNCHANGED <<gradebook, site>>

delete_assessment_to_lo(user, connection) ==
    /\ user \in Teachers
    /\ connection \in DOMAIN a2lo
    /\ AssessmentCourse(connection[1]) \in TeacherCourses(user)
    /\ a2lo' = delete_row(a2lo, connection)
    /\ last_call' = NoCall
    /\ UNCHANGED <<assessments, learning_outcomes, program_outcomes, lo2po, agrades>>
    /\ UNCHANGED <<gradebook, site>>

connect_lo_to_po(user, course, post) ==
    /\ user \in Boards
    /\ post[1] \in learning_outcomes /\ LearningOutcomeCourse(post[1]) = course
    /\ post[2] \in program_outcomes /\ ProgramOutcomeBoard(post[2]) = user
    /\ valid_weight(post[3])
    /\ lo2po' = update_or_create(lo2po, <<post[1], post[2]>>, post[3])
    /\ last_call' = NoCall
    /\ UNCHANGED <<assessments, learning_outcomes, program_outcomes, a2lo, agrades>>
    /\ UNCHANGED <<gradebook, site>>

delete_lo_to_po(user, connection) ==
    /\ user \in Boards
    /\ connection \in DOMAIN lo2po
    /\ lo2po' = delete_row(lo2po, connection)
    /\ last_call' = NoCall
    /\ UNCHANGED <<assessments, learning_outcomes, program_outcomes, a2lo, agrades>>
    /\ UNCHANGED <<gradebook, site>>

(***************************************************************************)
(* Read calls: the three functions called by the detail views and the      *)
(* graph API.  Each queries the store and returns the value of the         *)
(* operator of its name in the current state; nothing is saved.  last_call *)
(* records the call and the value it returned.                             *)
(***************************************************************************)
\* Mutant of call_calculate_lo_score: the connections are kept from one call
\* to the next as an iterator, which the repeated call finds exhausted.
call_calculate_lo_score_exhausted(student, learning_outcome) ==
    LET r == returned("calculate_lo_score", <<student, learning_outcome>>,
                      calculate_lo_score(student, learning_outcome))
    IN  /\ last_call' = IF r.again THEN [r EXCEPT !.result = None] ELSE r
        /\ UNCHANGED <<store, gradebook, site>>

call_calculate_lo_score(student, learning_outcome) ==
    /\ last_call' = returned("calculate_lo_score",
                              <<student, learning_outcome>>,
                              calculate_lo_score(student, learning_outcome))
    /\ UNCHANGED <<store, gradebook, site>>

call_calculate_po_score(student, program_outcome) ==
    /\ last_call' = returned("calculate_po_score",
                              <<student, program_outcome>>,
                              calculate_po_score(student, program_outcome))
    /\ UNCHANGED <<store, gradebook, site>>

\* Mutant of call_get_course_graph_data: the student's missing grades are
\* fetched with get_or_create, which saves a 0.0 row.
call_get_course_graph_data_get_or_create(course, student) ==
    LET missing == {<<a, student>> : a \in
                       {b \in assessments : /\ AssessmentCourse(b) = course
                                            /\ student # NoStudent}}
    IN  /\ last_call' = returned("get_course_graph_data", <<course, student>>,
                                  get_course_graph_data(course, student))
        /\ agrades' = [k \in DOMAIN agrades \cup missing |->
                          IF k \in DOMAIN agrades THEN agrades[k] ELSE FZero]
        /\ UNCHANGED <<assessments, learning_outcomes, program_outcomes,
                       a2lo, lo2po, gradebook, site>>

call_get_course_graph_data(course, student) ==
    /\ last_call' = returned("get_course_graph_data", <<course, student>>,
                              get_course_graph_data(course, student))
    /\ UNCHANGED <<store, gradebook, site>>

(***************************************************************************)
(* Text.  A Python str is a sequence of one-character strings, so that     *)
(* strip, upper, lower and the substring test `in` are computed.           *)
(***************************************************************************)
ascii_lowercase ==
    <<"a", "b", "c", "d", "e", "f", "g", "h", "i", "j", "k", "l", "m",
      "n", "o", "p", "q", "r", "s", "t", "u", "v", "w", "x", "y", "z">>
ascii_uppercase ==
    <<"A", "B", "C", "D", "E", "F", "G", "H", "I", "J", "K", "L", "M",
      "N", "O", "P", "Q", "R", "S", "T", "U", "V", "W", "X", "Y", "Z">>
digits == <<"0", "1", "2", "3", "4", "5", "6", "7", "8", "9">>
whitespace == {" "}

IndexIn(alphabet, ch) == CHOOSE i \in 1..Len(alphabet) : alphabet[i] = ch
IsIn(alphabet, ch) == \E i \in 1..Len(alphabet) : alphabet[i] = ch

\* str.upper() and str.lower()
upper(text) ==
    [i \in 1..Len(text) |->
        IF IsIn(ascii_lowercase, text[i])
        THEN ascii_uppercase[IndexIn(ascii_lowercase, text[i])] ELSE text[i]]
lower(text) ==
    [i \in 1..Len(text) |->
        IF IsIn(ascii_uppercase, text[i])
        THEN ascii_lowercase[IndexIn(ascii_uppercase, text[i])] ELSE text[i]]

\* str.strip()
RECURSIVE lstrip(_)
lstrip(text) ==
    IF text # <<>> /\ text[1] \in whitespace THEN lstrip(Tail(text)) ELSE text
RECURSIVE rstrip(_)
rstrip(text) ==
    IF text # <<>> /\ text[Len(text)] \in whitespace
    THEN rstrip(SubSeq(text, 1, Len(text) - 1)) ELSE text
strip(text) == rstrip(lstrip(text))

\* sub in text
contains(text, sub) ==
    \E i \in 1..(Len(text) - Len(sub) + 1) : SubSeq(text, i, i + Len(sub) - 1) = sub

\* str(n) of a non-negative int: its decimal numeral
RECURSIVE str_int(_)
str_int(n) ==
    IF n < 10 THEN <<digits[n + 1]>> ELSE str_int(n \div 10) \o <<digits[(n % 10) + 1]>>

\* The text constants of process_excel_grades, Grade.GRADE_CHOICES and the
\* Student rows, written out as character sequences.
T_student == <<"s", "t", "u", "d", "e", "n", "t">>
T_id == <<"i", "d">>
T_grade == <<"g", "r", "a", "d", "e">>
T_percentage == <<"p", "e", "r", "c", "e", "n", "t", "a", "g", "e">>
T_percent == <<"p", "e", "r", "c", "e", "n", "t">>
T_nan == <<"n", "a", "n">>

(***************************************************************************)
(* The uploaded sheet as pandas reads it: a DataFrame with a header row    *)
(* and data rows of cells.  A cell is text, an integer number or blank     *)
(* (NaN).                                                                  *)
(***************************************************************************)
text_cell(chars) == [t |-> "str", v |-> chars]
number_cell(n) == [t |-> "num", v |-> n]
blank_cell == [t |-> "nan", v |-> <<>>]

\* str(cell)
str(cell) ==
    CASE cell.t = "str" -> cell.v
      [] cell.t = "num" -> str_int(cell.v)
      [] OTHER -> T_nan

\* pd.notna(cell)
notna(cell) == cell.t # "nan"

\* int(text) of a decimal numeral
RECURSIVE int_of(_)
int_of(text) ==
    IF text = <<>> THEN 0
    ELSE 10 * int_of(SubSeq(text, 1, Len(text) - 1))
         + IndexIn(digits, text[Len(text)]) - 1

\* float(cell) of a cell that is not blank: [ok, value, text], ok = FALSE
\* where Python raises ValueError.  Text is accepted when, stripped, it is a
\* decimal numeral.
float(cell) ==
    LET numeral == strip(str(cell))
    IN  IF cell.t = "num"
        THEN [ok |-> TRUE, value |-> FRound(cell.v, 1), text |-> numeral]
        ELSE IF numeral # <<>> /\ \A i \in 1..Len(numeral) : IsIn(digits, numeral[i])
        THEN [ok |-> TRUE, value |-> FRound(int_of(numeral), 1), text |-> numeral]
        ELSE [ok |-> FALSE, value |-> None, text |-> numeral]

\* Student.student_id of the Student rows
student_id_of(s) == <<"S", digits[s + 1]>>

\* Grade.GRADE_CHOICES, first components
GRADE_CHOICES ==
    { <<"A", "+">>, <<"A">>, <<"A", "-">>, <<"B", "+">>, <<"B">>, <<"B", "-">>,
      <<"C", "+">>, <<"C">>, <<"C", "-">>, <<"D">>, <<"F">> }
\* Grade.ASSESSMENT_TYPE_CHOICES and the field's default
ASSESSMENT_TYPE_CHOICES == {"midterm", "assignment", "project", "final"}
assessment_type_default == "final"

(***************************************************************************)
(* Bulk Grade Importer: process_excel_grades.                              *)
(***************************************************************************)
\* What pd.read_excel is given when the upload is no workbook: it raises.
Unreadable == [columns |-> <<>>, rows |-> <<>>, readable |-> FALSE]
DataFrame(columns, rows) == [columns |-> columns, rows |-> rows, readable |-> TRUE]

\* The for loop over df.columns: position of the column each variable ends
\* with, 0 for None.  A later matching column replaces an earlier one.
RECURSIVE resolve_columns(_, _, _)
resolve_columns(columns, i, found) ==
    IF i > Len(columns) THEN found
    ELSE LET col == lower(strip(columns[i]))
         IN  resolve_columns(columns, i + 1,
                 IF contains(col, T_student) /\ contains(col, T_id)
                 THEN [found EXCEPT !.student_id_col = i]
                 ELSE IF contains(col, T_grade)
                 THEN [found EXCEPT !.grade_col = i]
                 ELSE IF contains(col, T_percentage) \/ contains(col, T_percent)
                 THEN [found EXCEPT !.percentage_col = i]
                 ELSE found)

no_columns == [student_id_col |-> 0, grade_col |-> 0, percentage_col |-> 0]

\* Grade.objects.update_or_create(student, course, semester, academic_year,
\* defaults): the rows matching the four lookup fields are fetched; none ->
\* a row is created with the lookup, the defaults and the model's default
\* assessment_type; one -> its default fields are set; more than one ->
\* MultipleObjectsReturned.
grade_matches(table, student, course, semester, academic_year) ==
    {k \in DOMAIN table :
        k[1] = student /\ k[2] = course /\ k[4] = semester /\ k[5] = academic_year}

\* Mutant of grade_update_or_create: a row is inserted by every call.
grade_always_create(table, student, course, semester, academic_year, defaults) ==
    LET free == {t \in ASSESSMENT_TYPE_CHOICES :
                    <<student, course, t, semester, academic_year>> \notin DOMAIN table}
        key == <<student, course,
                 IF assessment_type_default \in free THEN assessment_type_default
                 ELSE CHOOSE t \in free : TRUE,
                 semester, academic_year>>
    IN  IF free = {} THEN [table |-> table, created |-> FALSE, raised |-> TRUE]
        ELSE [table |-> [k \in DOMAIN table \cup {key} |->
                            IF k = key THEN defaults ELSE table[k]],
              created |-> TRUE, raised |-> FALSE]

grade_update_or_create(table, student, course, semester, academic_year, defaults) ==
    LET matches == grade_matches(table, student, course, semester, academic_year)
        key == IF matches = {}
               THEN <<student, course, assessment_type_default, semester, academic_year>>
               ELSE CHOOSE k \in matches : TRUE
    IN  IF Cardinality(matches) > 1
        THEN [table |-> table, created |-> FALSE, raised |-> TRUE]
        ELSE [table |-> [k \in DOMAIN table \cup {key} |->
                            IF k = key THEN defaults ELSE table[k]],
              created |-> matches = {}, raised |-> FALSE]

\* Mutant of student_not_found: the row is numbered from its 0-based index
\* plus one.
student_not_found_row_plus_one(student_id, index) ==
    <<"Student with ID ", student_id, " not found (row ", str_int(index + 1), ")">>

\* The three row errors, as the parts their f-strings join.
student_not_found(student_id, index) ==
    <<"Student with ID ", student_id, " not found (row ", str_int(index + 2), ")">>
invalid_grade(grade_value, student_id, index) ==
    <<"Invalid grade '", grade_value, "' for student ", student_id,
      " (row ", str_int(index + 2), ")">>
error_processing_row(index, e) ==
    <<"Error processing row ", str_int(index + 2), ": ", e>>

\* str(e) of the exceptions a row can raise
ValueError_float(numeral) == <<"could not convert string to float: ", numeral>>
MultipleObjectsReturned == <<"get() returned more than one Grade">>

\* Student.objects.get(student_id=student_id): the matching Student rows
students_with_id(student_id) == {s \in Students : student_id_of(s) = student_id}

\* One pass of the body of `for index, row in df.iterrows()`.  acc holds the
\* Grade table, grades_created, errors, and `written`: the (index, lookup,
\* defaults) of the update_or_create calls that have returned.
process_row(row, index, cols, course, semester, academic_year, created_by, acc) ==
    LET student_id == strip(str(row[cols.student_id_col]))
        grade_value == upper(strip(str(row[cols.grade_col])))
        has_percentage ==
            cols.percentage_col # 0 /\ notna(row[cols.percentage_col])
        parsed == float(row[cols.percentage_col])
        percentage == IF has_percentage THEN parsed.value ELSE None
        found == students_with_id(student_id)
        student == CHOOSE s \in found : TRUE
        defaults == [grade |-> grade_value, percentage |-> percentage,
                     created_by |-> created_by]
        saved == grade_update_or_create(acc.table, student, course, semester,
                                        academic_year, defaults)
    IN  IF has_percentage /\ ~parsed.ok
        THEN [acc EXCEPT !.errors =
                 Append(@, error_processing_row(index, ValueError_float(parsed.text)))]
        ELSE IF found = {}
        THEN [acc EXCEPT !.errors = Append(@, student_not_found(student_id, index))]
        ELSE IF grade_value \notin GRADE_CHOICES
        THEN [acc EXCEPT !.errors =
                 Append(@, invalid_grade(grade_value, student_id, index))]
        ELSE IF saved.raised
        THEN [acc EXCEPT !.errors =
                 Append(@, error_processing_row(index, MultipleObjectsReturned))]
        ELSE [table |-> saved.table,
              grades_created |-> acc.grades_created + (IF saved.created THEN 1 ELSE 0),
              errors |-> acc.errors,
              written |-> Append(acc.written,
                  [index |-> index,
                   key |-> <<student, course, semester, academic_year>>,
                   defaults |-> defaults])]

RECURSIVE iterrows(_, _, _, _, _, _, _, _)
iterrows(rows, index, cols, course, semester, academic_year, created_by, acc) ==
    IF index >= Len(rows) THEN acc
    ELSE iterrows(rows, index + 1, cols, course, semester, academic_year, created_by,
             process_row(rows[index + 1], index, cols, course, semester,
                         academic_year, created_by, acc))

\* Mutant of import_rows: the loop runs in one transaction, rolled back
\* when a row failed.
import_rows_atomic(table, excel_file, cols, course, semester, academic_year, created_by) ==
    LET done == iterrows(excel_file.rows, 0, cols, course, semester, academic_year,
                         created_by,
                         [table |-> table, grades_created |-> 0,
                          errors |-> <<>>, written |-> <<>>])
        failed == done.errors # <<>>
        message == <<"Successfully created/updated ",
                     str_int(IF failed THEN 0 ELSE done.grades_created), " grade(s).">>
                   \o (IF failed
                       THEN <<" ", str_int(Len(done.errors)), " error(s) occurred.">>
                       ELSE <<>>)
    IN  [ret |-> <<TRUE, message, done.errors>>,
         table |-> IF failed THEN table ELSE done.table,
         written |-> IF failed THEN <<>> ELSE done.written]

\* The rows of a sheet whose required columns are resolved: the loop, then
\* the message and the returned triple.
import_rows(table, excel_file, cols, course, semester, academic_year, created_by) ==
    LET done == iterrows(excel_file.rows, 0, cols, course, semester, academic_year,
                         created_by,
                         [table |-> table, grades_created |-> 0,
                          errors |-> <<>>, written |-> <<>>])
        message == <<"Successfully created/updated ", str_int(done.grades_created),
                     " grade(s).">>
                   \o (IF done.errors # <<>>
                       THEN <<" ", str_int(Len(done.errors)), " error(s) occurred.">>
                       ELSE <<>>)
    IN  [ret |-> <<TRUE, message, done.errors>>,
         table |-> done.table, written |-> done.written]

\* What the outer except clause returns
error_processing_file(table, e) ==
    [ret |-> <<FALSE, <<"Error processing Excel file: ", e>>, <<>>>>,
     table |-> table, written |-> <<>>]

\* Mutant of process_excel_grades: headers that resolve no student-id or
\* grade column fall back to the first and second column.
process_excel_grades_positional(table, excel_file, course, semester, academic_year, created_by) ==
    LET cols == resolve_columns(excel_file.columns, 1, no_columns)
        used == [cols EXCEPT
                    !.student_id_col = IF @ = 0 THEN 1 ELSE @,
                    !.grade_col = IF @ = 0 THEN 2 ELSE @]
    IN  IF ~excel_file.readable
        THEN error_processing_file(table, "not a workbook")
        ELSE import_rows(table, excel_file, used, course, semester, academic_year,
                         created_by)

\* process_excel_grades(excel_file, course, semester, academic_year,
\* created_by) on the Grade table `table`: the value it returns (ret), the
\* table it leaves and the update_or_create calls that returned (written).
process_excel_grades(table, excel_file, course, semester, academic_year, created_by) ==
    LET cols == resolve_columns(excel_file.columns, 1, no_columns)
    IN  IF ~excel_file.readable
        THEN error_processing_file(table, "not a workbook")
        ELSE IF cols.student_id_col = 0 \/ cols.grade_col = 0
        THEN [ret |-> <<FALSE,
                        <<"Excel file must contain 'Student ID' and 'Grade' columns">>>>,
              table |-> table, written |-> <<>>]
        ELSE import_rows(table, excel_file, cols, course, semester, academic_year,
                         created_by)

(***************************************************************************)
(* The uploads and forms the teacher requests below are drawn from.        *)
(***************************************************************************)
\* Header rows
H_Student_ID == <<"S", "t", "u", "d", "e", "n", "t", " ", "I", "D">>
H_Grade == <<"G", "r", "a", "d", "e">>
H_Percentage == <<"P", "e", "r", "c", "e", "n", "t", "a", "g", "e">>
H_student_id_padded == <<" ", "s", "t", "u", "d", "e", "n", "t", "_", "i", "d", " ">>
H_GRADE == <<"G", "R", "A", "D", "E">>
H_Name == <<"N", "a", "m", "e">>
H_Score == <<"S", "c", "o", "r", "e">>

\* Data rows over the columns (Student ID, Grade, Percentage)
SheetRows ==
    { <<text_cell(<<"S", "1">>), text_cell(<<"A">>), blank_cell>>,
      <<text_cell(<<" ", "S", "1", " ">>), text_cell(<<"b", "+">>), number_cell(85)>>,
      <<text_cell(<<"S", "2">>), text_cell(<<" ", "a", "-">>), text_cell(<<"9", "0">>)>>,
      <<text_cell(<<"S", "9">>), text_cell(<<"A">>), blank_cell>>,
      <<text_cell(<<"S", "2">>), text_cell(<<"E">>), blank_cell>>,
      <<text_cell(<<"S", "1">>), text_cell(<<"B">>), text_cell(<<"a", "b", "c">>)>>,
      <<text_cell(<<"S", "9">>), text_cell(<<"A">>), text_cell(<<"a", "b", "c">>)>>,
      <<text_cell(<<"S", "1">>), text_cell(<<"E">>), text_cell(<<"a", "b", "c">>)>> }

\* At most MaxRows data rows in a sheet
MaxRows == 2
RowLists == UNION {[1..n -> SheetRows] : n \in 0..MaxRows}

\* The sheet with the given headers whose column j holds field fields[j] of
\* each row
Sheet(headers, fields, rows) ==
    DataFrame(headers,
              [i \in 1..Len(rows) |-> [j \in 1..Len(headers) |-> rows[i][fields[j]]]])

\* The row lists uploaded under headers that miss a required column
ShortRowLists == {rows \in RowLists : Len(rows) = 1}

Uploads ==
    {Sheet(<<H_Student_ID, H_Grade, H_Percentage>>, <<1, 2, 3>>, rows) : rows \in RowLists}
    \cup {Sheet(<<H_GRADE, H_student_id_padded>>, <<2, 1>>, rows) : rows \in ShortRowLists}
    \cup {Sheet(<<H_Student_ID, H_Percentage>>, <<1, 3>>, rows) : rows \in ShortRowLists}
    \cup {Sheet(<<H_Name, H_Grade>>, <<1, 2>>, rows) : rows \in ShortRowLists}
    \cup {Sheet(<<H_Name, H_Score>>, <<1, 3>>, rows) : rows \in ShortRowLists}
    \cup {Unreadable}

\* GradeUploadForm and GradeForm: semester and academic_year as posted
Semesters == {"Fall 2024"}
AcademicYears == {"2024-2025"}

\* GradeUploadForm posts
UploadPosts ==
    [excel_file : Uploads, course : {1}, assessment_type : {"final"},
     semester : Semesters, academic_year : AcademicYears]

\* GradeForm posts
GradePosts ==
    [student : {1}, course : Courses, assessment_type : {"final", "midterm"},
     grade : {<<"C">>}, percentage : {FRound(40, 1)},
     semester : Semesters, academic_year : AcademicYears]

\* LearningOutcomeForm posts: the code; the row a course gets for it
LearningOutcomePosts == {"LO9"}
new_learning_outcome(course, code) == 3 + course

\* No teacher request yet.
NoRequest ==
    [view |-> "none", seq |-> 0, user |-> "", course |-> 0, post |-> <<>>,
     before |-> <<>>, ret |-> <<>>, raised |-> FALSE, written |-> <<>>]

\* At most MaxRequests teacher requests are followed.
MaxRequests == 2

\* The record of a teacher request: what was posted, the rows of the table
\* it writes before it ran, what the importer returned, whether the view
\* raised, and the update_or_create calls that returned.
requested(view, user, course, post, before, ret, raised, written) ==
    [view |-> view, seq |-> last_request.seq + 1, user |-> user, course |-> course,
     post |-> post, before |-> before, ret |-> ret, raised |-> raised,
     written |-> written]

\* last_write after the update_or_create calls of `written`
RECURSIVE record_writes(_, _)
record_writes(log, written) ==
    IF written = <<>> THEN log
    ELSE record_writes(
             [k \in DOMAIN log \cup {Head(written).key} |->
                 IF k = Head(written).key THEN Head(written).defaults ELSE log[k]],
             Tail(written))

NotGradebook == <<assessments, program_outcomes, a2lo, lo2po, agrades>>

\* Mutant of check_learning_outcome_permission: the teacher's courses are not
\* looked at.
check_learning_outcome_permission_any_course(user, course) == user \in Teachers

\* check_learning_outcome_permission and check_grade_permission
check_learning_outcome_permission(user, course) ==
    user \in Teachers /\ course \in TeacherCourses(user)
check_grade_permission(user, course) == check_learning_outcome_permission(user, course)

\* upload_grades: the POST of a valid GradeUploadForm.  The view unpacks
\* three values from what process_excel_grades returns; with any other
\* number Python raises ValueError out of the view.
upload_grades(user, course, post) ==
    /\ last_request.seq < MaxRequests
    /\ check_grade_permission(user, course)
    /\ post.course \in TeacherCourses(user)
    /\ post.assessment_type \in ASSESSMENT_TYPE_CHOICES
    /\ \E r \in {process_excel_grades(grades, post.excel_file, course, post.semester,
                                      post.academic_year, user)} :
        /\ grades' = r.table
        /\ last_write' = record_writes(last_write, r.written)
        /\ last_request' = requested("upload_grades", user, course, post, grades,
                                     r.ret, Len(r.ret) # 3, r.written)
        /\ last_call' = NoCall
        /\ UNCHANGED <<is_locked, learning_outcomes, NotGradebook, writers, site>>

\* GradeForm.validate_unique: all five unique_together fields are fields of
\* the form, so a post that names an existing row is refused.
validate_unique(post) ==
    <<post.student, post.course, post.assessment_type, post.semester,
      post.academic_year>> \notin DOMAIN grades

\* add_grade: the POST of a valid GradeForm
add_grade(user, course, post) ==
    LET defaults == [grade |-> post.grade, percentage |-> post.percentage,
                     created_by |-> user]
        saved == grade_update_or_create(grades, post.student, course, post.semester,
                                        post.academic_year, defaults)
        written == IF saved.raised THEN <<>>
                   ELSE <<[index |-> 0,
                           key |-> <<post.student, course, post.semester,
                                     post.academic_year>>,
                           defaults |-> defaults]>>
    IN  /\ last_request.seq < MaxRequests
        /\ check_grade_permission(user, course)
        /\ post.course \in TeacherCourses(user)
        /\ post.grade \in GRADE_CHOICES
        /\ post.assessment_type \in ASSESSMENT_TYPE_CHOICES
        /\ validate_unique(post)
        /\ post.course = course
        /\ grades' = saved.table
        /\ last_write' = record_writes(last_write, written)
        /\ last_request' = requested("add_grade", user, course, post, grades,
                                     <<>>, saved.raised, written)
        /\ last_call' = NoCall
        /\ UNCHANGED <<is_locked, learning_outcomes, NotGradebook, writers, site>>

\* row.description = text; row.save()
described(table, row, text) ==
    [r \in DOMAIN table \cup {row} |-> IF r = row THEN text ELSE table[r]]

\* add_learning_outcome: the POST of a valid LearningOutcomeForm; the row is
\* new for its course and code (unique_together).
add_learning_outcome(user, course, post) ==
    /\ last_request.seq < MaxRequests
    /\ check_learning_outcome_permission(user, course)
    /\ new_learning_outcome(course, post) \notin learning_outcomes
    /\ learning_outcomes' = learning_outcomes \cup {new_learning_outcome(course, post)}
    /\ last_request' = requested("add_learning_outcome", user, course, post,
                                 learning_outcomes, <<>>, FALSE, <<>>)
    /\ last_call' = NoCall
    /\ descriptions' = described(descriptions, <<"lo", new_learning_outcome(course, post)>>,
                                 "d0")
    /\ UNCHANGED <<grades, is_locked, last_write, NotGradebook, writers, session, response>>

\* CourseAdmin's change form saves is_locked as posted.
admin_change_course(course, locked) ==
    /\ is_locked' = [is_locked EXCEPT ![course] = locked]
    /\ last_request' = [NoRequest EXCEPT !.seq = last_request.seq]
    /\ UNCHANGED <<grades, last_write, learning_outcomes, NotGradebook, writers, last_call,
                   site>>

\* manage.py unlock_all_courses: UPDATE ... SET is_locked = False WHERE
\* is_locked = True, when some course is locked.
unlock_all_courses ==
    /\ \E c \in Courses : is_locked[c]
    /\ is_locked' = [c \in Courses |-> FALSE]
    /\ last_request' = [NoRequest EXCEPT !.seq = last_request.seq]
    /\ UNCHANGED <<grades, last_write, learning_outcomes, NotGradebook, writers, last_call,
                   site>>


(***************************************************************************)
(* The request/role layer.  A User row is named by its username; the       *)
(* teacher_profile, student_profile and academic_board_profile links are   *)
(* the tables Teachers, StudentUsers and Boards.  A response is its status *)
(* with the URL name it redirects to or the template it renders.           *)
(***************************************************************************)
StudentUsers == {"s1", "s2"}
\* Users without a profile row, such as the superuser of the admin site.
NoProfileUsers == {"u0"}
Users == Teachers \cup StudentUsers \cup Boards \cup NoProfileUsers
\* request.user of a session nobody is logged in to
AnonymousUser == "AnonymousUser"
\* The role None of get_user_role, as a string like the other roles.
NoRole == "None"

get_user_role(user) ==
    IF user = AnonymousUser THEN NoRole
    ELSE IF user \in Teachers THEN "teacher"
    ELSE IF user \in StudentUsers THEN "student"
    ELSE IF user \in Boards THEN "academic_board"
    ELSE NoRole

redirect(to, message) == [status |-> 302, location |-> to, message |-> message]
render(template, message) == [status |-> 200, location |-> template, message |-> message]
Http404 == [status |-> 404, location |-> "", message |-> ""]
\* An exception that leaves the view: the server's error page.
IntegrityError == [status |-> 500, location |-> "", message |-> "IntegrityError"]
\* The decorator calls the view it wraps.
view_func == [status |-> 0, location |-> "view_func", message |-> ""]

\* Mutant of role_required: only the login is tested.
role_required_any_role(allowed_roles, user) ==
    IF user = AnonymousUser
    THEN redirect("login", "Please log in to access this page.")
    ELSE view_func

role_required(allowed_roles, user) ==
    IF user = AnonymousUser
    THEN redirect("login", "Please log in to access this page.")
    ELSE IF get_user_role(user) \notin allowed_roles
    THEN redirect("dashboard_redirect",
                  "You do not have permission to access this page.")
    ELSE view_func

\* @login_required above a view: the anonymous request is sent to LOGIN_URL.
login_required(user, wrapped) ==
    IF user = AnonymousUser THEN redirect("login", "") ELSE wrapped

\* No RoleLoginForm was posted.
NoPost == [username |-> "", password |-> "", role |-> ""]
\* The request just answered: the view, request.user, the method, the row
\* the URL names (0 for none), the posted RoleLoginForm, the response, and
\* whether the body of the view ran.
answered(view, user, method, target, r, body) ==
    [view |-> view, user |-> user, method |-> method, target |-> target,
     post |-> NoPost, status |-> r.status, location |-> r.location,
     message |-> r.message, body |-> body]
NoResponse == answered("none", AnonymousUser, "GET", 0, view_func, FALSE)


\* The roles the decorator of each view names.
StudentViews == {"student_dashboard", "student_course_detail"}
TeacherViews ==
    {"teacher_dashboard", "teacher_course_detail", "add_learning_outcome",
     "edit_learning_outcome", "delete_learning_outcome", "add_grade", "upload_grades",
     "convert_grades_to_pdf", "add_assessment", "edit_assessment", "delete_assessment",
     "add_assessment_grade", "connect_assessment_to_lo", "delete_assessment_to_lo"}
BoardViews ==
    {"academic_board_dashboard", "create_course", "academic_board_course_detail",
     "edit_course", "delete_course", "add_program_outcome", "edit_program_outcome",
     "delete_program_outcome", "assign_teacher_to_course", "enroll_student_to_course",
     "connect_lo_to_po", "delete_lo_to_po"}
allowed_roles(view) ==
    IF view \in StudentViews THEN {"student"}
    ELSE IF view \in TeacherViews THEN {"teacher"}
    ELSE {"academic_board"}

\* What @login_required @role_required(...) answer before the view is called.
decorators(view, user) ==
    login_required(user, role_required(allowed_roles(view), user))

\* The request the decorators answer themselves.
refused(view, user, method, target) ==
    /\ decorators(view, user) # view_func
    /\ response' = answered(view, user, method, target, decorators(view, user), FALSE)
    /\ UNCHANGED <<store, gradebook, last_call, session, descriptions>>

Methods == {"GET", "POST"}
\* The password every account of the tests is created with.
password == "testpass123"
\* RoleLoginForm.ROLE_CHOICES
ROLE_CHOICES == {"student", "teacher", "academic_board"}
\* f'This account is not registered as a {role.title()}.'
not_registered(role) ==
    IF role = "student" THEN "This account is not registered as a Student."
    ELSE IF role = "teacher" THEN "This account is not registered as a Teacher."
    ELSE "This account is not registered as a Academic_Board."

\* Mutant of login_view: the selected role is not compared.
login_view_any_role(user, method, post) ==
    LET valid == /\ post.username \in Users /\ post.password = password
                 /\ post.role \in ROLE_CHOICES
        r == IF user # AnonymousUser THEN redirect("dashboard_redirect", "")
             ELSE IF method = "POST" /\ valid
             THEN redirect("dashboard_redirect", "Welcome")
             ELSE render("login.html", "")
    IN  /\ session' = IF user = AnonymousUser /\ r.status = 302
                      THEN post.username ELSE session
        /\ response' = [answered("login", user, method, 0, r, TRUE) EXCEPT
                            !.post = IF method = "POST" THEN post ELSE NoPost]
        /\ UNCHANGED <<store, gradebook, last_call, descriptions>>

\* login_view.  The posted RoleLoginForm is valid when the username and
\* password are those of an account and a role is selected.
login_view(user, method, post) ==
    LET valid == /\ post.username \in Users /\ post.password = password
                 /\ post.role \in ROLE_CHOICES
        r == IF user # AnonymousUser THEN redirect("dashboard_redirect", "")
             ELSE IF method = "POST" /\ valid
             THEN IF get_user_role(post.username) # post.role
                  THEN render("login.html", not_registered(post.role))
                  ELSE redirect("dashboard_redirect", "Welcome")
             ELSE render("login.html", "")
    IN  /\ session' = IF user = AnonymousUser /\ r.status = 302
                      THEN post.username ELSE session
        /\ response' = [answered("login", user, method, 0, r, TRUE) EXCEPT
                            !.post = IF method = "POST" THEN post ELSE NoPost]
        /\ UNCHANGED <<store, gradebook, last_call, descriptions>>

\* The login of the admin site, open to staff accounts.
admin_login(username) ==
    /\ username \in NoProfileUsers
    /\ session' = username
    /\ response' = answered("admin:login", session, "POST", 0,
                            redirect("admin:index", ""), TRUE)
    /\ UNCHANGED <<store, gradebook, last_call, descriptions>>

logout_view(user) ==
    LET r == login_required(user, redirect("login",
                                           "You have been logged out successfully."))
    IN  /\ session' = AnonymousUser
        /\ response' = answered("logout", user, "GET", 0, r, user # AnonymousUser)
        /\ UNCHANGED <<store, gradebook, last_call, descriptions>>

dashboard_redirect(user) ==
    LET role == get_user_role(user)
        r == login_required(user,
                 IF role = "student" THEN redirect("student_dashboard", "")
                 ELSE IF role = "teacher" THEN redirect("teacher_dashboard", "")
                 ELSE IF role = "academic_board"
                 THEN redirect("academic_board_dashboard", "")
                 ELSE redirect("login",
                               "Your account is not associated with any role."))
    IN  /\ response' = answered("dashboard_redirect", user, "GET", 0, r,
                                user # AnonymousUser)
        /\ UNCHANGED <<store, gradebook, last_call, session, descriptions>>

\* student_dashboard, teacher_dashboard and academic_board_dashboard: the
\* body queries the profile's rows and renders them.
dashboard(view, user) ==
    \/ refused(view, user, "GET", 0)
    \/ /\ decorators(view, user) = view_func
       /\ response' = answered(view, user, "GET", 0, render(view, ""), TRUE)
       /\ UNCHANGED <<store, gradebook, last_call, session, descriptions>>


(***************************************************************************)
(* The views that write outcomes, assessments and edges, each with its     *)
(* decorators, its get_object_or_404, its permission test and both         *)
(* methods.  `user` is request.user.                                       *)
(***************************************************************************)
Descriptions == {"d0", "d1"}
\* the row an AssessmentForm or a ProgramOutcomeForm creates
new_assessment(course) == 2 + course
new_program_outcome(board) == IF board = "b2" THEN 3 ELSE 4

\* The answer of a view whose body ran and wrote nothing.
replied(view, user, method, target, r) ==
    /\ response' = answered(view, user, method, target, r, TRUE)
    /\ UNCHANGED <<store, gradebook, last_call, session, descriptions>>

\* Mutant of cascade: the rows that refer to the deleted row are kept.
cascade_do_nothing(table, field, row) == table

\* on_delete=models.CASCADE of the ForeignKey that is component `field` of
\* the key of `table`: the rows that refer to the deleted row go with it.
cascade(table, field, row) ==
    [k \in {j \in DOMAIN table : j[field] # row} |-> table[k]]

edit_learning_outcome(user, method, lo_id, post) ==
    \/ refused("edit_learning_outcome", user, method, lo_id)
    \/ /\ decorators("edit_learning_outcome", user) = view_func
       /\ \/ /\ lo_id \notin learning_outcomes
             /\ replied("edit_learning_outcome", user, method, lo_id, Http404)
          \/ /\ lo_id \in learning_outcomes
             /\ LearningOutcomeCourse(lo_id) \notin TeacherCourses(user)
             /\ replied("edit_learning_outcome", user, method, lo_id,
                    redirect("teacher_dashboard",
                        "You do not have permission to edit this learning outcome."))
          \/ /\ lo_id \in learning_outcomes
             /\ LearningOutcomeCourse(lo_id) \in TeacherCourses(user)
             /\ method = "GET"
             /\ replied("edit_learning_outcome", user, method, lo_id,
                        render("edit_learning_outcome.html", ""))
          \/ /\ lo_id \in learning_outcomes
             /\ LearningOutcomeCourse(lo_id) \in TeacherCourses(user)
             /\ method = "POST"
             /\ descriptions' = described(descriptions, <<"lo", lo_id>>, post)
             /\ response' = answered("edit_learning_outcome", user, method, lo_id,
                                redirect("teacher_course_detail",
                                         "Learning outcome updated successfully."),
                                TRUE)
             /\ UNCHANGED <<store, gradebook, last_call, session>>

delete_learning_outcome(user, method, lo_id) ==
    \/ refused("delete_learning_outcome", user, method, lo_id)
    \/ /\ decorators("delete_learning_outcome", user) = view_func
       /\ \/ /\ lo_id \notin learning_outcomes
             /\ replied("delete_learning_outcome", user, method, lo_id, Http404)
          \/ /\ lo_id \in learning_outcomes
             /\ LearningOutcomeCourse(lo_id) \notin TeacherCourses(user)
             /\ replied("delete_learning_outcome", user, method, lo_id,
                    redirect("teacher_dashboard",
                        "You do not have permission to delete this learning outcome."))
          \/ /\ lo_id \in learning_outcomes
             /\ LearningOutcomeCourse(lo_id) \in TeacherCourses(user)
             /\ method = "GET"
             /\ replied("delete_learning_outcome", user, method, lo_id,
                        render("delete_learning_outcome.html", ""))
          \/ /\ lo_id \in learning_outcomes
             /\ LearningOutcomeCourse(lo_id) \in TeacherCourses(user)
             /\ method = "POST"
             /\ learning_outcomes' = learning_outcomes \ {lo_id}
             /\ a2lo' = cascade(a2lo, 2, lo_id)
             /\ lo2po' = cascade(lo2po, 1, lo_id)
             /\ descriptions' = delete_row(descriptions, <<"lo", lo_id>>)
             /\ response' = answered("delete_learning_outcome", user, method, lo_id,
                                redirect("teacher_course_detail",
                                         "Learning outcome deleted successfully."),
                                TRUE)
             /\ UNCHANGED <<assessments, program_outcomes, agrades, gradebook,
                            last_call, session>>

\* add_assessment.  The posted AssessmentForm carries one name; course is no
\* field of the form, so unique_together (course, name) is left to the
\* database, whose IntegrityError leaves the view.
add_assessment(user, method, course_id, post) ==
    \/ refused("add_assessment", user, method, course_id)
    \/ /\ decorators("add_assessment", user) = view_func
       /\ \/ /\ course_id \notin Courses
             /\ replied("add_assessment", user, method, course_id, Http404)
          \/ /\ course_id \in Courses
             /\ course_id \notin TeacherCourses(user)
             /\ replied("add_assessment", user, method, course_id,
                    redirect("teacher_dashboard", "You do not teach this course."))
          \/ /\ course_id \in TeacherCourses(user)
             /\ method = "GET"
             /\ replied("add_assessment", user, method, course_id,
                        render("add_assessment.html", ""))
          \/ /\ course_id \in TeacherCourses(user)
             /\ method = "POST"
             /\ new_assessment(course_id) \in assessments
             /\ replied("add_assessment", user, method, course_id, IntegrityError)
          \/ /\ course_id \in TeacherCourses(user)
             /\ method = "POST"
             /\ new_assessment(course_id) \notin assessments
             /\ assessments' = assessments \cup {new_assessment(course_id)}
             /\ descriptions' = described(descriptions,
                                    <<"assessment", new_assessment(course_id)>>, post)
             /\ response' = answered("add_assessment", user, method, course_id,
                                redirect("teacher_course_detail",
                                         "Assessment added successfully."), TRUE)
             /\ UNCHANGED <<learning_outcomes, program_outcomes, a2lo, lo2po, agrades,
                            gradebook, last_call, session>>

edit_assessment(user, method, assessment_id, post) ==
    \/ refused("edit_assessment", user, method, assessment_id)
    \/ /\ decorators("edit_assessment", user) = view_func
       /\ \/ /\ assessment_id \notin assessments
             /\ replied("edit_assessment", user, method, assessment_id, Http404)
          \/ /\ assessment_id \in assessments
             /\ AssessmentCourse(assessment_id) \notin TeacherCourses(user)
             /\ replied("edit_assessment", user, method, assessment_id,
                    redirect("teacher_dashboard",
                             "You do not have permission to edit this assessment."))
          \/ /\ assessment_id \in assessments
             /\ AssessmentCourse(assessment_id) \in TeacherCourses(user)
             /\ method = "GET"
             /\ replied("edit_assessment", user, method, assessment_id,
                        render("edit_assessment.html", ""))
          \/ /\ assessment_id \in assessments
             /\ AssessmentCourse(assessment_id) \in TeacherCourses(user)
             /\ method = "POST"
             /\ descriptions' = described(descriptions,
                                          <<"assessment", assessment_id>>, post)
             /\ response' = answered("edit_assessment", user, method, assessment_id,
                                redirect("teacher_course_detail",
                                         "Assessment updated successfully."), TRUE)
             /\ UNCHANGED <<store, gradebook, last_call, session>>

delete_assessment(user, method, assessment_id) ==
    \/ refused("delete_assessment", user, method, assessment_id)
    \/ /\ decorators("delete_assessment", user) = view_func
       /\ \/ /\ assessment_id \notin assessments
             /\ replied("delete_assessment", user, method, assessment_id, Http404)
          \/ /\ assessment_id \in assessments
             /\ AssessmentCourse(assessment_id) \notin TeacherCourses(user)
             /\ replied("delete_assessment", user, method, assessment_id,
                    redirect("teacher_dashboard",
                             "You do not have permission to delete this assessment."))
          \/ /\ assessment_id \in assessments
             /\ AssessmentCourse(assessment_id) \in TeacherCourses(user)
             /\ method = "GET"
             /\ replied("delete_assessment", user, method, assessment_id,
                        render("delete_assessment.html", ""))
          \/ /\ assessment_id \in assessments
             /\ AssessmentCourse(assessment_id) \in TeacherCourses(user)
             /\ method = "POST"
             /\ assessments' = assessments \ {assessment_id}
             /\ a2lo' = cascade(a2lo, 1, assessment_id)
             /\ agrades' = cascade(agrades, 1, assessment_id)
             /\ descriptions' = delete_row(descriptions, <<"assessment", assessment_id>>)
             /\ response' = answered("delete_assessment", user, method, assessment_id,
                                redirect("teacher_course_detail",
                                         "Assessment deleted successfully."), TRUE)
             /\ UNCHANGED <<learning_outcomes, program_outcomes, lo2po, gradebook,
                            last_call, session>>


\* The whole add_learning_outcome view; LearningOutcomeForm leaves
\* unique_together (course, code) to the database like AssessmentForm.
add_learning_outcome_request(user, method, course_id, post) ==
    \/ refused("add_learning_outcome", user, method, course_id)
    \/ /\ decorators("add_learning_outcome", user) = view_func
       /\ \/ /\ course_id \notin Courses
             /\ replied("add_learning_outcome", user, method, course_id, Http404)
          \/ /\ course_id \in Courses
             /\ ~check_learning_outcome_permission(user, course_id)
             /\ replied("add_learning_outcome", user, method, course_id,
                    redirect("teacher_course_detail",
                             "You cannot add learning outcomes to this course."))
          \/ /\ course_id \in Courses
             /\ check_learning_outcome_permission(user, course_id)
             /\ method = "GET"
             /\ replied("add_learning_outcome", user, method, course_id,
                        render("add_learning_outcome.html", ""))
          \/ /\ course_id \in Courses
             /\ check_learning_outcome_permission(user, course_id)
             /\ method = "POST"
             /\ new_learning_outcome(course_id, post) \in learning_outcomes
             /\ replied("add_learning_outcome", user, method, course_id, IntegrityError)
          \/ /\ course_id \in Courses
             /\ check_learning_outcome_permission(user, course_id)
             /\ method = "POST"
             /\ new_learning_outcome(course_id, post) \notin learning_outcomes
             /\ learning_outcomes' =
                    learning_outcomes \cup {new_learning_outcome(course_id, post)}
             /\ descriptions' = described(descriptions,
                                    <<"lo", new_learning_outcome(course_id, post)>>, "d0")
             /\ response' = answered("add_learning_outcome", user, method, course_id,
                                redirect("teacher_course_detail",
                                         "Learning outcome added successfully."), TRUE)
             /\ UNCHANGED <<assessments, program_outcomes, a2lo, lo2po, agrades,
                            gradebook, last_call, session>>

\* The whole add_assessment_grade view.  AssessmentGradeForm offers the
\* assessments and students of the course, and its validate_unique refuses
\* an (assessment, student) pair that has a row.
add_assessment_grade_request(user, method, course_id, post) ==
    LET valid == /\ post[1] \in assessments /\ AssessmentCourse(post[1]) = course_id
                 /\ course_id \in StudentCourses(post[2])
                 /\ valid_grade(post[3])
                 /\ <<post[1], post[2]>> \notin DOMAIN agrades
    IN  \/ refused("add_assessment_grade", user, method, course_id)
        \/ /\ decorators("add_assessment_grade", user) = view_func
           /\ \/ /\ course_id \notin Courses
                 /\ replied("add_assessment_grade", user, method, course_id, Http404)
              \/ /\ course_id \in Courses
                 /\ course_id \notin TeacherCourses(user)
                 /\ replied("add_assessment_grade", user, method, course_id,
                        redirect("teacher_dashboard", "You do not teach this course."))
              \/ /\ course_id \in TeacherCourses(user)
                 /\ method = "GET" \/ ~valid
                 /\ replied("add_assessment_grade", user, method, course_id,
                            render("add_assessment_grade.html", ""))
              \/ /\ course_id \in TeacherCourses(user)
                 /\ method = "POST" /\ valid
                 /\ agrades' = update_or_create(agrades, <<post[1], post[2]>>, post[3])
                 /\ response' = answered("add_assessment_grade", user, method, course_id,
                                    redirect("teacher_course_detail",
                                             "Assessment grade added successfully."),
                                    TRUE)
                 /\ UNCHANGED <<assessments, learning_outcomes, program_outcomes, a2lo,
                                lo2po, gradebook, last_call, session, descriptions>>

\* The whole connect_assessment_to_lo view.  AssessmentToLOForm offers the
\* assessments and learning outcomes of the course; validate_unique as above.
connect_assessment_to_lo_request(user, method, course_id, post) ==
    LET valid == /\ post[1] \in assessments /\ AssessmentCourse(post[1]) = course_id
                 /\ post[2] \in learning_outcomes
                 /\ LearningOutcomeCourse(post[2]) = course_id
                 /\ valid_weight(post[3])
                 /\ <<post[1], post[2]>> \notin DOMAIN a2lo
    IN  \/ refused("connect_assessment_to_lo", user, method, course_id)
        \/ /\ decorators("connect_assessment_to_lo", user) = view_func
           /\ \/ /\ course_id \notin Courses
                 /\ replied("connect_assessment_to_lo", user, method, course_id, Http404)
              \/ /\ course_id \in Courses
                 /\ course_id \notin TeacherCourses(user)
                 /\ replied("connect_assessment_to_lo", user, method, course_id,
                        redirect("teacher_dashboard", "You do not teach this course."))
              \/ /\ course_id \in TeacherCourses(user)
                 /\ method = "GET" \/ ~valid
                 /\ replied("connect_assessment_to_lo", user, method, course_id,
                            render("connect_assessment_to_lo.html", ""))
              \/ /\ course_id \in TeacherCourses(user)
                 /\ method = "POST" /\ valid
                 /\ a2lo' = update_or_create(a2lo, <<post[1], post[2]>>, post[3])
                 /\ response' = answered("connect_assessment_to_lo", user, method,
                                    course_id,
                                    redirect("teacher_course_detail",
                                             "Connection created successfully."), TRUE)
                 /\ UNCHANGED <<assessments, learning_outcomes, program_outcomes, lo2po,
                                agrades, gradebook, last_call, session, descriptions>>

\* The whole delete_assessment_to_lo view; the row of the URL is named by
\* its (assessment, learning_outcome) pair and `target` is its course.
delete_assessment_to_lo_request(user, method, connection) ==
    LET course == AssessmentCourse(connection[1])
    IN  \/ refused("delete_assessment_to_lo", user, method, course)
        \/ /\ decorators("delete_assessment_to_lo", user) = view_func
           /\ \/ /\ connection \notin DOMAIN a2lo
                 /\ replied("delete_assessment_to_lo", user, method, course, Http404)
              \/ /\ connection \in DOMAIN a2lo
                 /\ course \notin TeacherCourses(user)
                 /\ replied("delete_assessment_to_lo", user, method, course,
                        redirect("teacher_dashboard",
                                 "You do not have permission to delete this connection."))
              \/ /\ connection \in DOMAIN a2lo
                 /\ course \in TeacherCourses(user)
                 /\ method = "GET"
                 /\ replied("delete_assessment_to_lo", user, method, course,
                            render("delete_assessment_to_lo.html", ""))
              \/ /\ connection \in DOMAIN a2lo
                 /\ course \in TeacherCourses(user)
                 /\ method = "POST"
                 /\ a2lo' = delete_row(a2lo, connection)
                 /\ response' = answered("delete_assessment_to_lo", user, method, course,
                                    redirect("teacher_course_detail",
                                             "Connection deleted successfully."), TRUE)
                 /\ UNCHANGED <<assessments, learning_outcomes, program_outcomes, lo2po,
                                agrades, gradebook, last_call, session, descriptions>>


(***************************************************************************)
(* The Academic Board's views on program outcomes and LOToPO edges.        *)
(***************************************************************************)
\* add_program_outcome.  ProgramOutcomeForm carries one code; the database's
\* IntegrityError for a second row of the board with it is caught by the
\* view, which renders the form again.
add_program_outcome(user, method, post) ==
    \/ refused("add_program_outcome", user, method, 0)
    \/ /\ decorators("add_program_outcome", user) = view_func
       /\ \/ /\ method = "GET" \/ new_program_outcome(user) \in program_outcomes
             /\ replied("add_program_outcome", user, method, 0,
                        render("add_program_outcome.html", ""))
          \/ /\ method = "POST"
             /\ new_program_outcome(user) \notin program_outcomes
             /\ program_outcomes' = program_outcomes \cup {new_program_outcome(user)}
             /\ descriptions' = described(descriptions,
                                    <<"po", new_program_outcome(user)>>, post)
             /\ response' = answered("add_program_outcome", user, method, 0,
                                redirect("academic_board_dashboard",
                                         "Program outcome added successfully."), TRUE)
             /\ UNCHANGED <<assessments, learning_outcomes, a2lo, lo2po, agrades,
                            gradebook, last_call, session>>

edit_program_outcome(user, method, po_id, post) ==
    \/ refused("edit_program_outcome", user, method, po_id)
    \/ /\ decorators("edit_program_outcome", user) = view_func
       /\ \/ /\ po_id \notin program_outcomes
             /\ replied("edit_program_outcome", user, method, po_id, Http404)
          \/ /\ po_id \in program_outcomes
             /\ ProgramOutcomeBoard(po_id) # user
             /\ replied("edit_program_outcome", user, method, po_id,
                    redirect("academic_board_dashboard",
                        "You do not have permission to edit this program outcome."))
          \/ /\ po_id \in program_outcomes
             /\ ProgramOutcomeBoard(po_id) = user
             /\ method = "GET"
             /\ replied("edit_program_outcome", user, method, po_id,
                        render("edit_program_outcome.html", ""))
          \/ /\ po_id \in program_outcomes
             /\ ProgramOutcomeBoard(po_id) = user
             /\ method = "POST"
             /\ descriptions' = described(descriptions, <<"po", po_id>>, post)
             /\ response' = answered("edit_program_outcome", user, method, po_id,
                                redirect("academic_board_dashboard",
                                         "Program outcome updated successfully."), TRUE)
             /\ UNCHANGED <<store, gradebook, last_call, session>>

delete_program_outcome(user, method, po_id) ==
    \/ refused("delete_program_outcome", user, method, po_id)
    \/ /\ decorators("delete_program_outcome", user) = view_func
       /\ \/ /\ po_id \notin program_outcomes
             /\ replied("delete_program_outcome", user, method, po_id, Http404)
          \/ /\ po_id \in program_outcomes
             /\ ProgramOutcomeBoard(po_id) # user
             /\ replied("delete_program_outcome", user, method, po_id,
                    redirect("academic_board_dashboard",
                        "You do not have permission to delete this program outcome."))
          \/ /\ po_id \in program_outcomes
             /\ ProgramOutcomeBoard(po_id) = user
             /\ method = "GET"
             /\ replied("delete_program_outcome", user, method, po_id,
                        render("delete_program_outcome.html", ""))
          \/ /\ po_id \in program_outcomes
             /\ ProgramOutcomeBoard(po_id) = user
             /\ method = "POST"
             /\ program_outcomes' = program_outcomes \ {po_id}
             /\ lo2po' = cascade(lo2po, 2, po_id)
             /\ descriptions' = delete_row(descriptions, <<"po", po_id>>)
             /\ response' = answered("delete_program_outcome", user, method, po_id,
                                redirect("academic_board_dashboard",
                                         "Program outcome deleted successfully."), TRUE)
             /\ UNCHANGED <<assessments, learning_outcomes, a2lo, agrades, gradebook,
                            last_call, session>>

\* The whole connect_lo_to_po view.  LOToPOForm offers the learning outcomes
\* of the course and the program outcomes of the member's board, and its
\* validate_unique refuses a pair that has a row.  `target` is the posted
\* program outcome.
connect_lo_to_po_request(user, method, course_id, post) ==
    LET valid == /\ post[1] \in learning_outcomes
                 /\ LearningOutcomeCourse(post[1]) = course_id
                 /\ post[2] \in program_outcomes /\ ProgramOutcomeBoard(post[2]) = user
                 /\ valid_weight(post[3])
                 /\ <<post[1], post[2]>> \notin DOMAIN lo2po
    IN  \/ refused("connect_lo_to_po", user, method, post[2])
        \/ /\ decorators("connect_lo_to_po", user) = view_func
           /\ \/ /\ course_id \notin Courses
                 /\ replied("connect_lo_to_po", user, method, post[2], Http404)
              \/ /\ course_id \in Courses
                 /\ method = "GET" \/ ~valid
                 /\ replied("connect_lo_to_po", user, method, post[2],
                            render("connect_lo_to_po.html", ""))
              \/ /\ course_id \in Courses
                 /\ method = "POST" /\ valid
                 /\ lo2po' = update_or_create(lo2po, <<post[1], post[2]>>, post[3])
                 /\ response' = answered("connect_lo_to_po", user, method, post[2],
                                    redirect("academic_board_course_detail",
                                             "Connection created successfully."), TRUE)
                 /\ UNCHANGED <<assessments, learning_outcomes, program_outcomes, a2lo,
                                agrades, gradebook, last_call, session, descriptions>>

\* The whole delete_lo_to_po view; the row of the URL is named by its
\* (learning_outcome, program_outcome) pair and `target` is its program
\* outcome.
delete_lo_to_po_request(user, method, connection) ==
    \/ refused("delete_lo_to_po", user, method, connection[2])
    \/ /\ decorators("delete_lo_to_po", user) = view_func
       /\ \/ /\ connection \notin DOMAIN lo2po
             /\ replied("delete_lo_to_po", user, method, connection[2], Http404)
          \/ /\ connection \in DOMAIN lo2po
             /\ method = "GET"
             /\ replied("delete_lo_to_po", user, method, connection[2],
                        render("delete_lo_to_po.html", ""))
          \/ /\ connection \in DOMAIN lo2po
             /\ method = "POST"
             /\ lo2po' = delete_row(lo2po, connection)
             /\ response' = answered("delete_lo_to_po", user, method, connection[2],
                                redirect("academic_board_course_detail",
                                         "Connection deleted successfully."), TRUE)
             /\ UNCHANGED <<assessments, learning_outcomes, program_outcomes, a2lo,
                            agrades, gradebook, last_call, session, descriptions>>


(***************************************************************************)
(* Two requests that write Grade rows side by side.  Each row is written   *)
(* by Grade.objects.update_or_create, whose database statements are the    *)
(* steps: a SELECT by the four lookup fields, an INSERT when it found no   *)
(* row, a second SELECT when the INSERT hit the unique constraint, and an  *)
(* UPDATE of the row that a SELECT found.                                  *)
(***************************************************************************)
Writers == {"w1", "w2"}
NoJob == [view |-> "none", user |-> "", course |-> 0, assessment_type |-> "", rows |-> <<>>]
Idle == [job |-> NoJob, pc |-> "idle", i |-> 0, obj |-> <<>>, errors |-> <<>>,
         raised |-> FALSE]

\* The rows of an upload of teacher t1 and the post of teacher t3, both for
\* course 1: (student, defaults) of each update_or_create.
graded(student, grade_value, percentage, created_by) ==
    [student |-> student,
     defaults |-> [grade |-> grade_value, percentage |-> percentage,
                   created_by |-> created_by]]
Jobs(w) ==
    IF w = "w1"
    THEN {[view |-> "upload_grades", user |-> "t1", course |-> 1,
           assessment_type |-> "final", rows |-> rows] :
              rows \in {<<graded(1, <<"A">>, FRound(90, 1), "t1")>>,
                        <<graded(1, <<"A">>, FRound(90, 1), "t1"),
                          graded(2, <<"A">>, FRound(90, 1), "t1")>>,
                        <<graded(2, <<"A">>, FRound(90, 1), "t1"),
                          graded(1, <<"A">>, FRound(90, 1), "t1")>>}}
    ELSE {[view |-> "upload_grades", user |-> "t3", course |-> 1,
           assessment_type |-> "final",
           rows |-> <<graded(1, <<"B">>, None, "t3"), graded(2, <<"B">>, None, "t3")>>]}
         \cup {[view |-> "add_grade", user |-> "t3", course |-> 1,
                assessment_type |-> t,
                rows |-> <<graded(1, <<"B">>, FRound(40, 1), "t3")>>] :
                   t \in {"final", "midterm"}}

semester == "Fall 2024"
academic_year == "2024-2025"

\* the row of the job that the writer is at
row_of(wr) == wr.job.rows[wr.i]

\* The writer goes on after a row: to the next row, or to its end.
next_row(wr) ==
    IF wr.i >= Len(wr.job.rows)
    THEN [wr EXCEPT !.pc = "done", !.obj = <<>>]
    ELSE [wr EXCEPT !.pc = "get", !.i = @ + 1, !.obj = <<>>]

\* update_or_create raised: the importer's `except Exception` of the row
\* appends the error and goes on; add_grade has no handler.
row_raised(wr, e) ==
    IF wr.job.view = "upload_grades"
    THEN next_row([wr EXCEPT !.errors = Append(@, error_processing_row(wr.i - 1, e))])
    ELSE [wr EXCEPT !.pc = "done", !.raised = TRUE]

\* Mutant of updated: only the grade is saved.
updated_grade_only(row, defaults) == [row EXCEPT !.grade = defaults.grade]

\* setattr(obj, k, v) for every item of defaults, then obj.save()
updated(row, defaults) ==
    [row EXCEPT !.grade = defaults.grade, !.percentage = defaults.percentage,
                !.created_by = defaults.created_by]

\* The request arrives: upload_grades goes to its first row, add_grade to
\* form.is_valid().
start(w, job) ==
    /\ writers[w].pc = "idle"
    /\ writers' = [writers EXCEPT ![w] =
           [Idle EXCEPT !.job = job, !.i = 1,
                        !.pc = IF job.view = "add_grade" THEN "is_valid" ELSE "get"]]
    /\ UNCHANGED <<store, grades, is_locked, last_request, last_write, last_call, site>>

\* GradeForm.is_valid() of add_grade: validate_unique refuses the post when
\* a row has its student, course, assessment_type, semester, academic_year.
is_valid(w) ==
    LET wr == writers[w] IN
    /\ wr.pc = "is_valid"
    /\ writers' = [writers EXCEPT ![w] =
           IF <<row_of(wr).student, wr.job.course, wr.job.assessment_type, semester,
                academic_year>> \in DOMAIN grades
           THEN [wr EXCEPT !.pc = "done"]
           ELSE [wr EXCEPT !.pc = "get"]]
    /\ UNCHANGED <<store, grades, is_locked, last_request, last_write, last_call, site>>

\* self.get(**kwargs): at the start of update_or_create (pc "get"), and
\* again after the INSERT raised IntegrityError (pc "get_again").
get(w) ==
    LET wr == writers[w]
        matches == grade_matches(grades, row_of(wr).student, wr.job.course, semester,
                                 academic_year)
    IN  /\ wr.pc \in {"get", "get_again"}
        /\ writers' = [writers EXCEPT ![w] =
               IF Cardinality(matches) = 1
               THEN [wr EXCEPT !.pc = "save", !.obj = CHOOSE k \in matches : TRUE]
               ELSE IF matches = {} /\ wr.pc = "get"
               THEN [wr EXCEPT !.pc = "create"]
               ELSE IF matches = {}
               THEN row_raised(wr, <<"IntegrityError">>)
               ELSE row_raised(wr, MultipleObjectsReturned)]
        /\ UNCHANGED <<store, grades, is_locked, last_request, last_write, last_call, site>>

\* self.create(**params): the INSERT, which the unique constraint refuses
\* when the row is there by now.
create(w) ==
    LET wr == writers[w]
        key == <<row_of(wr).student, wr.job.course, assessment_type_default, semester,
                 academic_year>>
    IN  /\ wr.pc = "create"
        /\ IF key \in DOMAIN grades
           THEN /\ writers' = [writers EXCEPT ![w] = [wr EXCEPT !.pc = "get_again"]]
                /\ UNCHANGED grades
           ELSE /\ grades' = update_or_create(grades, key, row_of(wr).defaults)
                /\ writers' = [writers EXCEPT ![w] = next_row(wr)]
        /\ UNCHANGED <<store, is_locked, last_request, last_write, last_call, site>>

\* obj.save(): the UPDATE of the row that get returned
save(w) ==
    LET wr == writers[w] IN
    /\ wr.pc = "save"
    /\ grades' = [grades EXCEPT ![wr.obj] = updated(@, row_of(wr).defaults)]
    /\ writers' = [writers EXCEPT ![w] = next_row(wr)]
    /\ UNCHANGED <<store, is_locked, last_request, last_write, last_call, site>>


Init ==
    /\ assessments = AssessmentIds
    /\ learning_outcomes = LearningOutcomeIds
    /\ program_outcomes = ProgramOutcomeIds
    /\ a2lo = <<>>
    /\ lo2po = <<>>
    /\ agrades = <<>>
    /\ last_call = NoCall
    /\ grades = <<>>
    /\ is_locked = [c \in Courses |-> FALSE]
    /\ last_request = NoRequest
    /\ last_write = <<>>
    /\ session = AnonymousUser
    /\ response = NoResponse
    /\ descriptions = [r \in ({"assessment"} \X AssessmentIds)
                              \cup ({"lo"} \X LearningOutcomeIds)
                              \cup ({"po"} \X ProgramOutcomeIds) |-> "d0"]
    /\ writers = [w \in Writers |-> Idle]

Next ==
    \/ \E u \in Teachers, c \in Courses, post \in AssessmentGradePosts :
           add_assessment_grade(u, c, post)
    \/ \E u \in Teachers, c \in Courses, post \in AssessmentToLOPosts :
           connect_assessment_to_lo(u, c, post)
    \/ \E post \in AssessmentToLOAdminPosts : admin_add_assessment_to_lo(post)
    \/ \E u \in Teachers, e \in DOMAIN a2lo : delete_assessment_to_lo(u, e)
    \/ \E u \in Boards, c \in Courses, post \in LOToPOPosts :
           connect_lo_to_po(u, c, post)
    \/ \E u \in Boards, e \in DOMAIN lo2po : delete_lo_to_po(u, e)
    \/ \E s \in Students, l \in learning_outcomes : call_calculate_lo_score(s, l)
    \/ \E s \in Students, q \in program_outcomes : call_calculate_po_score(s, q)
    \/ \E c \in Courses, s \in Students \cup {NoStudent} :
           call_get_course_graph_data(c, s)

Spec == Init /\ [][Next]_vars

\* The teacher's grade requests: imports and single grades.
NextImport ==
    \/ \E u \in Teachers, c \in Courses, post \in UploadPosts : upload_grades(u, c, post)
    \/ \E u \in Teachers, c \in Courses, post \in GradePosts : add_grade(u, c, post)

SpecImport == Init /\ [][NextImport]_vars

\* The uploads and form posts followed where courses get locked
LockUploadPosts ==
    {post \in UploadPosts :
        /\ post.excel_file.readable
        /\ post.excel_file.columns = <<H_Student_ID, H_Grade, H_Percentage>>
        /\ Len(post.excel_file.rows) = 1
        /\ post.excel_file.rows[1][1] = text_cell(<<"S", "1">>)
        /\ post.excel_file.rows[1][2] = text_cell(<<"A">>)}
LockGradePosts == {post \in GradePosts : post.assessment_type = "midterm"}

\* Courses being locked and unlocked, and the teacher's requests that write
\* learning outcomes and grades.
NextLock ==
    \/ \E c \in Courses, locked \in BOOLEAN : admin_change_course(c, locked)
    \/ unlock_all_courses
    \/ \E u \in Teachers, c \in Courses, post \in LearningOutcomePosts :
           add_learning_outcome(u, c, post)
    \/ \E u \in Teachers, c \in Courses, post \in LockGradePosts : add_grade(u, c, post)
    \/ \E u \in Teachers, c \in Courses, post \in LockUploadPosts :
           upload_grades(u, c, post)

SpecLock == Init /\ [][NextLock]_vars

\* Courses being locked and unlocked between the writes of grades, edges
\* and learning outcomes and the reads of scores and graphs.
NextLockedReads ==
    \/ \E c \in Courses, locked \in BOOLEAN : admin_change_course(c, locked)
    \/ unlock_all_courses
    \/ \E post \in LearningOutcomePosts : add_learning_outcome("t1", 1, post)
    \/ add_assessment_grade("t1", 1, <<1, 1, G100>>)
    \/ connect_assessment_to_lo("t1", 1, <<1, 1, W3>>)
    \/ connect_lo_to_po("b1", 1, <<1, 1, W3>>)
    \/ \E l \in learning_outcomes : call_calculate_lo_score(1, l)
    \/ \E q \in program_outcomes : call_calculate_po_score(1, q)
    \/ \E c \in Courses, st \in {1, NoStudent} : call_get_course_graph_data(c, st)

SpecLockedReads == Init /\ [][NextLockedReads]_vars

\* teacher_course_detail: the page a teacher's accepted POST redirects to.
teacher_course_detail(user, course_id) ==
    \/ refused("teacher_course_detail", user, "GET", course_id)
    \/ /\ decorators("teacher_course_detail", user) = view_func
       /\ replied("teacher_course_detail", user, "GET", course_id,
              IF course_id \notin Courses THEN Http404
              ELSE IF course_id \notin TeacherCourses(user)
              THEN redirect("teacher_dashboard", "You do not teach this course.")
              ELSE render("teacher_course_detail", ""))

\* The index page of the admin site.
admin_index(user) ==
    /\ response' = answered("admin:index", user, "GET", 0,
                       IF user \in NoProfileUsers THEN render("admin:index", "")
                       ELSE redirect("admin:login", ""), TRUE)
    /\ UNCHANGED <<store, gradebook, last_call, session, descriptions>>

\* course_id of the redirect to teacher_course_detail: the course of the URL,
\* or the course of the row of the URL.
redirect_course_id(r) ==
    IF r.view \in {"edit_learning_outcome", "delete_learning_outcome"}
    THEN LearningOutcomeCourse(r.target)
    ELSE IF r.view \in {"edit_assessment", "delete_assessment"}
    THEN AssessmentCourse(r.target)
    ELSE r.target

\* The browser requests the Location of a redirect, with its session.
follow ==
    /\ response.status = 302
    /\ \/ /\ response.location = "login"
          /\ login_view(session, "GET", NoPost)
       \/ /\ response.location = "dashboard_redirect"
          /\ dashboard_redirect(session)
       \/ /\ response.location \in
                 {"student_dashboard", "teacher_dashboard", "academic_board_dashboard"}
          /\ dashboard(response.location, session)
       \/ /\ response.location = "teacher_course_detail"
          /\ teacher_course_detail(session, redirect_course_id(response))
       \/ /\ response.location = "admin:index"
          /\ admin_index(session)

\* The accounts, posts and rows of the requests followed below
LoginPosts ==
    [username : {"t1", "s1", "b1", "u0", "nobody"},
     password : {password, "wrong"},
     role : ROLE_CHOICES]

\* A browser: it logs in and out, requests views with its session, and
\* follows every redirect before its user does anything else.
NextAccess ==
    \/ follow
    \/ \E m \in Methods, post \in LoginPosts :
           response.status # 302 /\ login_view(session, m, post)
    \/ \E u \in NoProfileUsers : response.status # 302 /\ admin_login(u)
    \/ response.status # 302 /\ logout_view(session)
    \/ response.status # 302 /\ dashboard_redirect(session)
    \/ \E v \in {"student_dashboard", "teacher_dashboard", "academic_board_dashboard"} :
           response.status # 302 /\ dashboard(v, session)
    \/ \E m \in Methods :
           response.status # 302 /\ edit_learning_outcome(session, m, 1, "d1")
    \/ \E m \in Methods :
           response.status # 302 /\ delete_learning_outcome(session, m, 1)
    \/ \E m \in Methods : response.status # 302 /\ add_assessment(session, m, 1, "d1")
    \/ \E m \in Methods :
           response.status # 302 /\ delete_program_outcome(session, m, 1)

SpecAccess == Init /\ [][NextAccess]_vars
\* The browser does follow a redirect.
SpecAccessFollowed == SpecAccess /\ WF_vars(follow)

\* Two teachers, t1 who teaches course 2 and t3 who does not, posting to
\* the views that write the learning outcomes, assessments, assessment
\* grades and AssessmentToLO edges of course 2; a student tries one of them.
NextTeacher ==
    \/ \E u \in {"t1", "t3"} : add_learning_outcome_request(u, "POST", 2, "LO9")
    \/ \E u \in {"t1", "t3"} : edit_learning_outcome(u, "POST", 3, "d1")
    \/ \E u \in {"t1", "t3", "s1"}, l \in {3, 5} : delete_learning_outcome(u, "POST", l)
    \/ \E u \in {"t1", "t3"} : add_assessment(u, "POST", 2, "d0")
    \/ \E u \in {"t1", "t3"} : edit_assessment(u, "POST", 4, "d1")
    \/ \E u \in {"t1", "t3"} : delete_assessment(u, "POST", 4)
    \/ \E u \in {"t1", "t3"} : add_assessment_grade_request(u, "POST", 2, <<4, 1, G100>>)
    \/ \E u \in {"t1", "t3"} :
           connect_assessment_to_lo_request(u, "POST", 2, <<4, 3, W3>>)
    \/ \E u \in {"t1", "t3"} : delete_assessment_to_lo_request(u, "POST", <<4, 3>>)

SpecTeacher == Init /\ [][NextTeacher]_vars

\* The members of two boards posting to the views that write program
\* outcomes and LOToPO edges; a teacher tries one of them.
NextBoard ==
    \/ \E u \in Boards : add_program_outcome(u, "POST", "d0")
    \/ \E u \in Boards, q \in {1, 3} : edit_program_outcome(u, "POST", q, "d1")
    \/ \E u \in Boards, q \in {1, 3} : delete_program_outcome(u, "POST", q)
    \/ \E u \in Boards, post \in {<<1, 1, W3>>, <<1, 1, W6>>, <<1, 3, W3>>} :
           connect_lo_to_po_request(u, "POST", 1, post)
    \/ \E u \in Boards \cup {"t1"}, e \in {<<1, 1>>, <<1, 3>>} :
           delete_lo_to_po_request(u, "POST", e)

SpecBoard == Init /\ [][NextBoard]_vars

\* Rows being created and deleted by the users who may, a teacher of both
\* courses and the board of the program outcomes, and by a student, who
\* may not.
NextCascade ==
    \/ add_assessment("t1", "POST", 1, "d0")
    \/ add_learning_outcome_request("t1", "POST", 1, "LO9")
    \/ add_assessment_grade_request("t1", "POST", 1, <<1, 1, G100>>)
    \/ \E post \in {<<1, 1, W3>>, <<3, 1, W6>>} :
           connect_assessment_to_lo_request("t1", "POST", 1, post)
    \/ \E post \in {<<1, 1, W3>>, <<1, 2, W3>>} :
           connect_lo_to_po_request("b1", "POST", 1, post)
    \/ \E e \in DOMAIN a2lo : delete_assessment_to_lo_request("t1", "POST", e)
    \/ \E e \in DOMAIN lo2po : delete_lo_to_po_request("b1", "POST", e)
    \/ \E a \in {1, 3} : delete_assessment("t1", "POST", a)
    \/ delete_learning_outcome("t1", "POST", 1)
    \/ \E u \in {"b1", "s1"} : delete_program_outcome(u, "POST", 1)

SpecCascade == Init /\ [][NextCascade]_vars

\* Two courses with assessments, grades and edges of their own, whose
\* learning outcomes feed one program outcome, and the graph of each for a
\* student of both.
NextCourses ==
    \/ \E user \in {"t1", "s1"} : add_assessment(user, "POST", 2, "d0")
    \/ \E c \in Courses, post \in {<<1, 1, G70>>, <<2, 1, G100>>, <<4, 1, G100>>} :
           add_assessment_grade("t1", c, post)
    \/ \E c \in Courses, post \in {<<1, 1, W0>>, <<2, 1, W6>>, <<4, 3, W3>>} :
           connect_assessment_to_lo("t1", c, post)
    \/ \E c \in Courses, post \in {<<1, 1, W3>>, <<3, 1, W6>>} :
           connect_lo_to_po("b1", c, post)
    \/ \E c \in Courses : call_get_course_graph_data(c, 1)

SpecCourses == Init /\ [][NextCourses]_vars

(***************************************************************************)
(* execute_safe_db_operations: a callback of raw SQL statements run on a   *)
(* cursor inside transaction.atomic().                                     *)
(***************************************************************************)
\* The statements a callback passes to cursor.execute: UPDATEs of the
\* description of learning outcome 1 and INSERTs of AssessmentToLO rows,
\* one of them with a learning_outcome_id that no LearningOutcome row has.
SqlStatements ==
    {[table |-> "learningoutcome", row |-> <<"lo", 1>>, value |-> <<"d1">>],
     [table |-> "learningoutcome", row |-> <<"lo", 1>>, value |-> <<"d0">>],
     [table |-> "assessmenttolo", row |-> <<1, 1>>, value |-> W3],
     [table |-> "assessmenttolo", row |-> <<1, 9>>, value |-> W3]}

MaxStatements == 2

\* What the callback does after its statements: return, raise an exception
\* of a class under Exception, or raise one that is a BaseException only.
Exceptions == {"ValueError", "IntegrityError"}
BaseExceptions == Exceptions \cup {"KeyboardInterrupt"}
Callbacks ==
    [statements : UNION {[1..n -> SqlStatements] : n \in 0..MaxStatements},
     then : {"return", "ValueError", "KeyboardInterrupt"}]

\* cursor.execute(statement) on the tables as the transaction sees them.
\* The unique constraint of AssessmentToLO is checked by the statement, its
\* foreign keys at the commit.
cursor_execute(db, statement) ==
    IF db.raised # "" THEN db
    ELSE IF statement.table = "learningoutcome"
    THEN [db EXCEPT !.descriptions = described(@, statement.row, statement.value[1])]
    ELSE IF statement.row \in DOMAIN db.a2lo
    THEN [db EXCEPT !.raised = "IntegrityError"]
    ELSE [db EXCEPT !.a2lo = described(@, statement.row, statement.value)]

\* operations_callback(cursor): the statements in turn, then its end
RECURSIVE operations(_, _, _)
operations(db, callback, i) ==
    IF i > Len(callback.statements)
    THEN IF db.raised = "" /\ callback.then # "return"
         THEN [db EXCEPT !.raised = callback.then]
         ELSE db
    ELSE operations(cursor_execute(db, callback.statements[i]), callback, i + 1)

\* the commit at the exit of transaction.atomic(): the deferred foreign keys
commit(db) ==
    IF \A e \in DOMAIN db.a2lo : e[1] \in assessments /\ e[2] \in learning_outcomes
    THEN db
    ELSE [db EXCEPT !.raised = "IntegrityError"]

\* Mutant of atomic: no transaction, every statement is kept as it is made.
not_atomic(callback) ==
    LET begun == [a2lo |-> a2lo, descriptions |-> descriptions, raised |-> ""]
        done == operations(begun, callback, 1)
    IN  IF done.raised = "" THEN commit(done) ELSE done

\* transaction.atomic() around the callback: the tables and the exception
\* that leave the block
atomic(callback) ==
    LET begun == [a2lo |-> a2lo, descriptions |-> descriptions, raised |-> ""]
        done == operations(begun, callback, 1)
        ended == IF done.raised = "" THEN commit(done) ELSE done
    IN  IF ended.raised = "" THEN ended ELSE [begun EXCEPT !.raised = ended.raised]

error_msg(e) == <<"Error occurred: ", e, ". All changes have been rolled back.">>

\* What the call gives its caller: the tuple it returns, or the exception
\* that `except Exception` lets through.
safe_result(callback, ended) ==
    IF ended.raised = ""
    THEN [raised |-> "",
          returned |-> <<TRUE, "Operations completed successfully",
                         <<"rows", Len(callback.statements)>>>>]
    ELSE IF ended.raised \in Exceptions
    THEN [raised |-> "", returned |-> <<FALSE, error_msg(ended.raised), None>>]
    ELSE [raised |-> ended.raised, returned |-> None]

execute_safe_db_operations(operations_callback) ==
    LET ended == atomic(operations_callback) IN
    /\ a2lo' = ended.a2lo
    /\ descriptions' = ended.descriptions
    /\ last_call' = [NoCall EXCEPT !.fn = "execute_safe_db_operations",
                                   !.args = <<operations_callback>>,
                                   !.result = safe_result(operations_callback, ended)]
    /\ UNCHANGED <<assessments, learning_outcomes, program_outcomes, lo2po, agrades>>
    /\ UNCHANGED <<gradebook, session, response>>

NextSafe ==
    \/ \E operations_callback \in Callbacks :
           execute_safe_db_operations(operations_callback)
    \/ \E e \in DOMAIN a2lo : delete_assessment_to_lo("t1", e)

SpecSafe == Init /\ [][NextSafe]_vars

NextConcurrent ==
    \/ \E w \in Writers : \E job \in Jobs(w) : start(w, job)
    \/ \E w \in Writers : is_valid(w)
    \/ \E w \in Writers : get(w)
    \/ \E w \in Writers : create(w)
    \/ \E w \in Writers : save(w)

SpecConcurrent == Init /\ [][NextConcurrent]_vars






(***************************************************************************)
(* Properties of the Score Aggregator.                                     *)
(***************************************************************************)

\* The inbound AssessmentToLO edges of L whose assessment has a grade for S,
\* in the order of the table.
GradedEdges(S, L) ==
    OrderedA2LO({e \in DOMAIN a2lo :
                    e[2] = L /\ <<e[1], S>> \in DOMAIN agrades})
InboundEdges(L) == {e \in DOMAIN a2lo : e[2] = L}
GradedWeight(S, L) ==
    LET es == GradedEdges(S, L) IN FSum([i \in 1..Len(es) |-> a2lo[es[i]]])
GradedWeightedSum(S, L) ==
    LET es == GradedEdges(S, L)
    IN  FSum([i \in 1..Len(es) |-> FMul(agrades[<<es[i][1], S>>], a2lo[es[i]])])

\* C1: when learning outcome L has a graded inbound edge for student S and
\* the graded edges' total weight is not 0, calculate_lo_score(S, L) returns
\* sum(grade * weight) / sum(weight) over exactly the graded inbound edges;
\* ungraded edges add nothing to either sum.
C1_LOScoreIsWeightedAverage ==
    last_call.fn = "calculate_lo_score" =>
        LET S == last_call.args[1]
            L == last_call.args[2]
        IN  (GradedEdges(S, L) # <<>> /\ GradedWeight(S, L) # FZero) =>
                last_call.result =
                    FDiv(GradedWeightedSum(S, L), GradedWeight(S, L))

\* A learning outcome with a graded and an ungraded inbound edge, both of
\* positive weight, has been scored.
C1_Witness ==
    /\ last_call.fn = "calculate_lo_score"
    /\ \E e \in InboundEdges(last_call.args[2]) :
           <<e[1], last_call.args[1]>> \in DOMAIN agrades /\ a2lo[e] # FZero
    /\ \E e \in InboundEdges(last_call.args[2]) :
           <<e[1], last_call.args[1]>> \notin DOMAIN agrades /\ a2lo[e] # FZero
    /\ last_call.result # None

\* C2: calculate_lo_score(S, L) returns None when L has no inbound edge,
\* when no inbound edge's assessment has a grade for S, and when the graded
\* inbound edges all have weight 0.
C2_LOScoreNoneCases ==
    last_call.fn = "calculate_lo_score" =>
        LET S == last_call.args[1]
            L == last_call.args[2]
        IN  (\/ InboundEdges(L) = {}
             \/ GradedEdges(S, L) = <<>>
             \/ \A i \in 1..Len(GradedEdges(S, L)) :
                    a2lo[GradedEdges(S, L)[i]] = FZero) =>
                last_call.result = None

\* Graded inbound edges exist, all have weight 0, and None was returned.
C2_Witness ==
    /\ last_call.fn = "calculate_lo_score"
    /\ GradedEdges(last_call.args[1], last_call.args[2]) # <<>>
    /\ \A e \in InboundEdges(last_call.args[2]) :
           <<e[1], last_call.args[1]>> \in DOMAIN agrades => a2lo[e] = FZero
    /\ last_call.result = None

\* The inbound LOToPO edges of P whose learning outcome has a score for S.
ScoredEdges(S, P) ==
    OrderedLO2PO({e \in DOMAIN lo2po :
                     e[2] = P /\ calculate_lo_score(S, e[1]) # None})
ScoredWeight(S, P) ==
    LET es == ScoredEdges(S, P) IN FSum([i \in 1..Len(es) |-> lo2po[es[i]]])
ScoredWeightedSum(S, P) ==
    LET es == ScoredEdges(S, P)
    IN  FSum([i \in 1..Len(es) |->
                 FMul(calculate_lo_score(S, es[i][1]), lo2po[es[i]])])

\* C3: calculate_po_score(S, P) returns the average of calculate_lo_score(S, L),
\* weighted by LOToPO weight, over the inbound edges of P whose learning
\* outcome has a score; edges whose score is None are skipped.
C3_POScoreIsAverageOfLOScores ==
    last_call.fn = "calculate_po_score" =>
        LET S == last_call.args[1]
            P == last_call.args[2]
        IN  (ScoredEdges(S, P) # <<>> /\ ScoredWeight(S, P) # FZero) =>
                last_call.result =
                    FDiv(ScoredWeightedSum(S, P), ScoredWeight(S, P))

One == <<1, 1>>

\* A program outcome scored over two learning outcomes whose two-level
\* score is more than 1 away from the flattened average of its grades.
C3_Witness ==
    /\ last_call.fn = "calculate_po_score"
    /\ last_call.result # None
    /\ LET S == last_call.args[1]
           P == last_call.args[2]
           flat == calculate_po_score_flattened(S, P)
       IN  /\ Len(ScoredEdges(S, P)) >= 2
           /\ flat # None
           /\ \/ FLeq(FAdd(last_call.result, One), flat)
              \/ FLeq(FAdd(flat, One), last_call.result)

\* C4: calculate_po_score(S, P) returns None exactly when P has no inbound
\* edge, or no inbound edge's learning outcome has a score for S, or the
\* edges with a score all have weight 0; otherwise it returns a number.
C4_POScoreNoneCases ==
    last_call.fn = "calculate_po_score" =>
        LET S == last_call.args[1]
            P == last_call.args[2]
            none_case ==
                \/ {e \in DOMAIN lo2po : e[2] = P} = {}
                \/ ScoredEdges(S, P) = <<>>
                \/ \A i \in 1..Len(ScoredEdges(S, P)) :
                       lo2po[ScoredEdges(S, P)[i]] = FZero
            score == last_call.result
        IN  /\ none_case => score = None
            /\ ~none_case => (Len(score) = 2 /\ score[2] > 0)

\* None was returned for a program outcome whose only scored edge has
\* weight 0, in a store where another program outcome has a number.
C4_Witness ==
    /\ last_call.fn = "calculate_po_score"
    /\ ScoredEdges(last_call.args[1], last_call.args[2]) # <<>>
    /\ \A i \in 1..Len(ScoredEdges(last_call.args[1], last_call.args[2])) :
           lo2po[ScoredEdges(last_call.args[1], last_call.args[2])[i]] = FZero
    /\ last_call.result = None
    /\ \E P \in program_outcomes :
           calculate_po_score(last_call.args[1], P) # None

\* C5 (as claimed): grades are in [0, 100] and weights are >= 0 in every
\* state, and every result of calculate_lo_score and of calculate_po_score
\* that is not None lies in [0, 100].
C5_ScoresInRange ==
    /\ \A k \in DOMAIN agrades : valid_grade(agrades[k])
    /\ \A e \in DOMAIN a2lo : valid_weight(a2lo[e])
    /\ \A e \in DOMAIN lo2po : valid_weight(lo2po[e])
    /\ (/\ last_call.fn \in {"calculate_lo_score", "calculate_po_score"}
        /\ last_call.result # None) => valid_grade(last_call.result)

CourseAssessments(c) == {a \in assessments : AssessmentCourse(a) = c}
CourseLearningOutcomes(c) ==
    {l \in learning_outcomes : LearningOutcomeCourse(l) = c}
ReachablePOs(c) ==
    {q \in program_outcomes :
        \E l \in CourseLearningOutcomes(c) : <<l, q>> \in DOMAIN lo2po}
NodeIds(g) == {g.nodes[i].id : i \in 1..Len(g.nodes)}

\* C8: the node list returned by get_course_graph_data(course) has exactly
\* N+M+K entries: one per assessment of the course, one per learning
\* outcome of the course, one per program outcome reachable from those
\* learning outcomes (once, however many edges reach it) and no other.
C8_NodeListIsAssessmentsLOsReachablePOs ==
    last_call.fn = "get_course_graph_data" =>
        LET c == last_call.args[1]
            g == last_call.result
        IN  /\ Len(g.nodes) = Cardinality(CourseAssessments(c))
                            + Cardinality(CourseLearningOutcomes(c))
                            + Cardinality(ReachablePOs(c))
            /\ NodeIds(g) =
                   {<<"assessment", a>> : a \in CourseAssessments(c)}
                   \cup {<<"lo", l>> : l \in CourseLearningOutcomes(c)}
                   \cup {<<"po", q>> : q \in ReachablePOs(c)}
            /\ \A i \in 1..Len(g.nodes) :
                   g.nodes[i].type =
                       CASE g.nodes[i].id[1] = "assessment" -> "assessment"
                         [] g.nodes[i].id[1] = "lo" -> "learning_outcome"
                         [] g.nodes[i].id[1] = "po" -> "program_outcome"

\* The graph of a course whose two learning outcomes both reach the same
\* program outcome while another program outcome is connected only from a
\* learning outcome of another course.
C8_Witness ==
    /\ last_call.fn = "get_course_graph_data"
    /\ \E q, r \in program_outcomes :
        /\ Cardinality({l \in CourseLearningOutcomes(last_call.args[1]) :
                           <<l, q>> \in DOMAIN lo2po}) >= 2
        /\ r \notin ReachablePOs(last_call.args[1])
        /\ \E e \in DOMAIN lo2po : e[2] = r
        /\ <<"po", q>> \in NodeIds(last_call.result)
        /\ <<"po", r>> \notin NodeIds(last_call.result)

EdgeFields(e) ==
    [source |-> e.source, target |-> e.target, type |-> e.type,
     weight |-> e.weight]

\* C9 (as claimed): the edge list returned by get_course_graph_data(course)
\* has exactly one entry per AssessmentToLO edge between an assessment and
\* a learning outcome of the course and one per LOToPO edge leaving a
\* learning outcome of the course, each with that edge's source, target,
\* type and weight, and nothing else.
C9_EdgeListIsInCourseEdges ==
    last_call.fn = "get_course_graph_data" =>
        LET c == last_call.args[1]
            g == last_call.result
            in_a == {e \in DOMAIN a2lo :
                        /\ e[1] \in CourseAssessments(c)
                        /\ e[2] \in CourseLearningOutcomes(c)}
            in_p == {e \in DOMAIN lo2po : e[1] \in CourseLearningOutcomes(c)}
        IN  /\ Len(g.edges) = Cardinality(in_a) + Cardinality(in_p)
            /\ {EdgeFields(g.edges[i]) : i \in 1..Len(g.edges)} =
                   {[source |-> <<"assessment", e[1]>>,
                     target |-> <<"lo", e[2]>>,
                     type |-> "assessment_to_lo",
                     weight |-> a2lo[e]] : e \in in_a}
                   \cup {[source |-> <<"lo", e[1]>>,
                          target |-> <<"po", e[2]>>,
                          type |-> "lo_to_po",
                          weight |-> lo2po[e]] : e \in in_p}

\* C10: in what get_course_graph_data(course, student) returns, an
\* assessment node has a grade exactly when a student is given and has a
\* grade for it, a learning-outcome or program-outcome node has a score
\* exactly when a student is given and the score function's result is not
\* None, the value is that grade or score, and nothing stands in for an
\* absent one.
C10_NodesAnnotatedIffGradeOrScore ==
    last_call.fn = "get_course_graph_data" =>
        LET s == last_call.args[2]
            g == last_call.result
        IN  \A i \in 1..Len(g.nodes) :
                LET n == g.nodes[i]
                    k == n.id[2]
                    has_grade == "grade" \in DOMAIN n.data
                    has_score == "score" \in DOMAIN n.data
                IN  CASE n.type = "assessment" ->
                           /\ ~has_score
                           /\ has_grade <=>
                                  (s # NoStudent /\ <<k, s>> \in DOMAIN agrades)
                           /\ has_grade => n.data.grade = agrades[<<k, s>>]
                      [] n.type = "learning_outcome" ->
                           /\ ~has_grade
                           /\ has_score <=>
                                  (s # NoStudent
                                   /\ calculate_lo_score(s, k) # None)
                           /\ has_score =>
                                  n.data.score = calculate_lo_score(s, k)
                      [] n.type = "program_outcome" ->
                           /\ ~has_grade
                           /\ has_score <=>
                                  (s # NoStudent
                                   /\ calculate_po_score(s, k) # None)
                           /\ has_score =>
                                  n.data.score = calculate_po_score(s, k)

NodesWith(g, key, type) ==
    {g.nodes[i].id : i \in {j \in 1..Len(g.nodes) :
        g.nodes[j].type = type /\ key \in DOMAIN g.nodes[j].data}}
NodesWithout(g, key, type) ==
    {g.nodes[i].id : i \in {j \in 1..Len(g.nodes) :
        g.nodes[j].type = type /\ key \notin DOMAIN g.nodes[j].data}}

\* One graph for one student with a graded and an ungraded assessment, a
\* scored and an unscored learning outcome and a scored program outcome.
C10_Witness ==
    /\ last_call.fn = "get_course_graph_data"
    /\ last_call.args[2] # NoStudent
    /\ NodesWith(last_call.result, "grade", "assessment") # {}
    /\ NodesWithout(last_call.result, "grade", "assessment") # {}
    /\ NodesWith(last_call.result, "score", "learning_outcome") # {}
    /\ NodesWithout(last_call.result, "score", "learning_outcome") # {}
    /\ NodesWith(last_call.result, "score", "program_outcome") # {}


(***************************************************************************)
(* Properties of the Bulk Grade Importer, over SpecImport.                 *)
(***************************************************************************)
\* The last request was an upload whose file pandas could read.
Imported == last_request.view = "upload_grades" /\ last_request.post.excel_file.readable
sheet == last_request.post.excel_file

\* A header names the student-id column / the grade column.
NamesStudentId(header) ==
    contains(lower(header), T_student) /\ contains(lower(header), T_id)
NamesGrade(header) == contains(lower(header), T_grade)
ColumnsResolve(df) ==
    /\ \E j \in 1..Len(df.columns) : NamesStudentId(df.columns[j])
    /\ \E j \in 1..Len(df.columns) : NamesGrade(df.columns[j])

\* C11: when the headers resolve no student-id column or no grade column,
\* process_excel_grades reports accepted = False with the message naming the
\* two required columns, makes no update_or_create call, and the Grade rows
\* are exactly those from before the call.
C11_UnresolvedColumnsRejected ==
    (Imported /\ ~ColumnsResolve(sheet)) =>
        /\ last_request.ret[1] = FALSE
        /\ last_request.ret[2] =
               <<"Excel file must contain 'Student ID' and 'Grade' columns">>
        /\ last_request.written = <<>>
        /\ grades = last_request.before

\* A sheet with data rows but no grade column was uploaded over stored grades.
C11_Witness ==
    /\ Imported
    /\ ~ColumnsResolve(sheet)
    /\ \E j \in 1..Len(sheet.columns) : NamesStudentId(sheet.columns[j])
    /\ sheet.rows # <<>>
    /\ last_request.before # <<>>
    /\ last_request.ret[1] = FALSE

\* C12: on every path process_excel_grades returns three values, so that
\* upload_grades, which unpacks three, never raises.
C12_AlwaysReturnsTriple ==
    last_request.view = "upload_grades" =>
        /\ Len(last_request.ret) = 3
        /\ ~last_request.raised

\* The cells of data row i (1-based) as the spec's contract reads them: the
\* trimmed student id, the trimmed upper-cased grade token, the percentage.
StudentIdColumn(df) == CHOOSE j \in 1..Len(df.columns) : NamesStudentId(df.columns[j])
GradeColumn(df) ==
    CHOOSE j \in 1..Len(df.columns) :
        NamesGrade(df.columns[j]) /\ ~NamesStudentId(df.columns[j])
PercentageColumns(df) ==
    {j \in 1..Len(df.columns) :
        /\ contains(lower(df.columns[j]), T_percent)
        /\ ~NamesGrade(df.columns[j]) /\ ~NamesStudentId(df.columns[j])}
RowStudentId(df, i) == strip(str(df.rows[i][StudentIdColumn(df)]))
RowGrade(df, i) == upper(strip(str(df.rows[i][GradeColumn(df)])))
KnownStudent(df, i) == \E s \in Students : student_id_of(s) = RowStudentId(df, i)
RowStudent(df, i) == CHOOSE s \in Students : student_id_of(s) = RowStudentId(df, i)
ValidGrade(df, i) == RowGrade(df, i) \in GRADE_CHOICES
PercentageGiven(df, i) ==
    \E j \in PercentageColumns(df) : df.rows[i][j].t # "nan"
PercentageNumeric(df, i) ==
    \A j \in PercentageColumns(df) :
        df.rows[i][j].t # "nan" => float(df.rows[i][j]).ok
RowPercentage(df, i) ==
    IF PercentageGiven(df, i)
    THEN float(df.rows[i][CHOOSE j \in PercentageColumns(df) : TRUE]).value
    ELSE None
ValidRow(df, i) == KnownStudent(df, i) /\ ValidGrade(df, i) /\ PercentageNumeric(df, i)

rowErrors == last_request.ret[3]
\* Data row i (1-based) was passed to an update_or_create call that returned.
Upserted(i) ==
    \E k \in 1..Len(last_request.written) : last_request.written[k].index = i - 1
Resolved == Imported /\ ColumnsResolve(sheet)

\* C13: every data row whose trimmed student id matches no Student, whatever
\* its other cells hold, gets the row error 'Student with ID <id> not found
\* (row <n>)' and no Grade is written for it.
C13_UnknownStudentRowError ==
    Resolved =>
        \A i \in 1..Len(sheet.rows) :
            ~KnownStudent(sheet, i) =>
                /\ \E k \in 1..Len(rowErrors) :
                       rowErrors[k] = <<"Student with ID ", RowStudentId(sheet, i),
                                        " not found (row ", str_int(i + 1), ")">>
                /\ ~Upserted(i)

\* C14: every data row of a known student whose trimmed, upper-cased grade
\* token is no letter grade gets the row error "Invalid grade '<g>' for
\* student <id> (row <n>)" and no Grade is written for it; a token that is a
\* letter grade up to letter case is accepted.
C14_InvalidGradeRowError ==
    Resolved =>
        \A i \in 1..Len(sheet.rows) :
            /\ (KnownStudent(sheet, i) /\ ~ValidGrade(sheet, i)) =>
                  /\ \E k \in 1..Len(rowErrors) :
                         rowErrors[k] =
                             <<"Invalid grade '", RowGrade(sheet, i), "' for student ",
                               RowStudentId(sheet, i), " (row ", str_int(i + 1), ")">>
                  /\ ~Upserted(i)
            /\ ValidRow(sheet, i) => Upserted(i)

\* The values row i of the sheet is to be stored with, and its lookup key.
RowKey(df, i) ==
    <<RowStudent(df, i), last_request.course, last_request.post.semester,
      last_request.post.academic_year>>
RowDefaults(df, i) ==
    [grade |-> RowGrade(df, i), percentage |-> RowPercentage(df, i),
     created_by |-> last_request.user]
\* The Grade rows stored under a lookup key
StoredUnder(key) ==
    {k \in DOMAIN grades :
        k[1] = key[1] /\ k[2] = key[2] /\ k[4] = key[3] /\ k[5] = key[4]}
\* No later valid row of the sheet writes the key of row i.
LastForKey(df, i) ==
    \A j \in (i + 1)..Len(df.rows) : ValidRow(df, j) => RowKey(df, j) # RowKey(df, i)

\* C15: when both required columns resolve, accepted = True however many
\* rows fail, and every valid row is upserted, whatever happens to the rows
\* before and after it: its update_or_create call is made with the row's
\* values, and the last valid row of each key is what the store holds.
C15_AcceptedAndNotAtomic ==
    Resolved =>
        /\ last_request.ret[1] = TRUE
        /\ \A i \in 1..Len(sheet.rows) :
              ValidRow(sheet, i) =>
                  /\ \E k \in 1..Len(last_request.written) :
                         last_request.written[k] =
                             [index |-> i - 1, key |-> RowKey(sheet, i),
                              defaults |-> RowDefaults(sheet, i)]
                  /\ LastForKey(sheet, i) =>
                         \E k \in StoredUnder(RowKey(sheet, i)) :
                             grades[k] = RowDefaults(sheet, i)

\* A sheet of a failing row and a valid row, in either order, was imported:
\* one row error, one Grade written.
C15_Witness ==
    /\ Resolved
    /\ Len(sheet.rows) = 2
    /\ \E i, j \in 1..2 :
          /\ i # j /\ ~ValidRow(sheet, i) /\ ValidRow(sheet, j)
          /\ Upserted(j) /\ ~Upserted(i)
    /\ Len(rowErrors) = 1
    /\ last_request.ret[1] = TRUE
    /\ grades # last_request.before

\* The lookup keys of update_or_create: (student, course, semester,
\* academic_year)
GradeKeys == Students \X Courses \X Semesters \X AcademicYears

\* C16: from the empty Grade table, after any imports and add_grade
\* submissions, each (student, course, semester, academic_year) has at most
\* one Grade row, it has one exactly when a write for the key succeeded, and
\* the row carries the grade, percentage and creator of the last such write.
C16_OneGradePerKey ==
    \A key \in GradeKeys :
        /\ Cardinality(StoredUnder(key)) <= 1
        /\ (key \in DOMAIN last_write) <=> (StoredUnder(key) # {})
        /\ \A k \in StoredUnder(key) : grades[k] = last_write[key]

\* add_grade has written a key that an import by another teacher had
\* written with another grade: the one row is updated in place.
C16_Witness ==
    /\ last_request.view = "add_grade"
    /\ last_request.written # <<>>
    /\ \E k \in DOMAIN last_request.before :
          /\ DOMAIN grades = {k}
          /\ last_request.before[k].created_by # grades[k].created_by
          /\ last_request.before[k].grade # grades[k].grade
          /\ grades[k].created_by = last_request.user
          /\ grades[k].grade = last_request.post.grade

summary == last_request.ret[2]
\* The counts the summary states: the numeral after 'created/updated', and
\* the numeral before 'error(s) occurred', which is left out when there is
\* no error.
ReportedGrades == int_of(summary[2])
ReportedErrors == IF Len(summary) > 3 THEN int_of(summary[5]) ELSE 0

\* C17: in the summary of an accepted import the grade count is the number
\* of rows whose Grade was created or updated, and the error count is the
\* number of entries of rowErrors.
C17_SummaryCounts ==
    Resolved =>
        /\ ReportedGrades = Len(last_request.written)
        /\ ReportedErrors = Len(rowErrors)

\* The data rows (0-based) that were not upserted, and the place of such a
\* row among them in row order.
NotUpserted == {i \in 0..(Len(sheet.rows) - 1) : ~Upserted(i + 1)}
Rank(i) == Cardinality({j \in NotUpserted : j <= i})
\* The row number a row error states
RowNumber(entry) ==
    int_of(CASE entry[1] = "Student with ID " -> entry[4]
             [] entry[1] = "Invalid grade '" -> entry[6]
             [] OTHER -> entry[2])

\* C18: rowErrors has one entry for each data row that was not upserted and
\* none for an upserted row, in row order; the entry of the data row at
\* 0-based position i states row i + 2.
C18_RowErrorsPerSkippedRow ==
    Resolved =>
        /\ Len(rowErrors) = Cardinality(NotUpserted)
        /\ Len(rowErrors) + Len(last_request.written) = Len(sheet.rows)
        /\ \A i \in NotUpserted : RowNumber(rowErrors[Rank(i)]) = i + 2

\* Two rows were skipped, for different reasons, the second of them an
\* unknown student reported as row 3.
C18_Witness ==
    /\ Resolved
    /\ NotUpserted = {0, 1}
    /\ Len(rowErrors) = 2
    /\ rowErrors[1][1] # rowErrors[2][1]
    /\ rowErrors[2][1] = "Student with ID "
    /\ RowNumber(rowErrors[2]) = 3


(***************************************************************************)
(* Properties of the course lock, over SpecLock and SpecLockedReads.        *)
(***************************************************************************)
\* C19: while a course is locked, add_learning_outcome, add_grade and
\* upload_grades by a teacher, assigned to the course or not, leave the
\* course's learning outcomes and grades as they were.
C19_LockedCourseNotWritten ==
    (/\ last_request.view \in {"add_learning_outcome", "add_grade", "upload_grades"}
     /\ is_locked[last_request.course]) =>
        IF last_request.view = "add_learning_outcome"
        THEN learning_outcomes = last_request.before
        ELSE grades = last_request.before

\* C20: the course lock never affects reads.  A call of calculate_lo_score,
\* calculate_po_score or get_course_graph_data that repeats the call before
\* it, with no write to the store in between but with is_locked of some
\* course changed in between, returns what the call before it returned.
C20_LockNeverAffectsReads ==
    [][last_call'.relocked => last_call'.result = last_call.result]_vars

\* A score of a learning outcome of a course was read as a number, the
\* course was locked, and the score was read again.
C20_Witness ==
    /\ last_call.fn = "calculate_lo_score"
    /\ last_call.relocked
    /\ last_call.result # None
    /\ is_locked[LearningOutcomeCourse(last_call.args[2])]

(***************************************************************************)
(* Properties of the request/role layer.                                   *)
(***************************************************************************)
RoleViews == StudentViews \cup TeacherViews \cup BoardViews
\* the rows the views write
StoredData == <<store, grades, is_locked, descriptions>>
RoleOf(user) ==
    IF user \in Teachers THEN "teacher"
    ELSE IF user \in StudentUsers THEN "student"
    ELSE IF user \in Boards THEN "academic_board"
    ELSE "no role"
RolesNamed(view) ==
    IF view \in TeacherViews THEN {"teacher"}
    ELSE IF view \in StudentViews THEN {"student"}
    ELSE {"academic_board"}

\* C21: a request to a view wrapped in role_required is redirected to the
\* login page when nobody is logged in, and to dashboard_redirect when the
\* user's role (teacher, student, academic_board or none) is not one the
\* decorator names; in both cases the body of the view does not run and no
\* stored row changes.  The body runs only for a user whose role is named.
C21_RoleRequiredGuardsViews ==
    [][response'.view \in RoleViews =>
          /\ response'.user = AnonymousUser =>
                /\ response'.status = 302 /\ response'.location = "login"
                /\ ~response'.body
                /\ StoredData' = StoredData
          /\ (/\ response'.user # AnonymousUser
              /\ RoleOf(response'.user) \notin RolesNamed(response'.view)) =>
                /\ response'.status = 302
                /\ response'.location = "dashboard_redirect"
                /\ ~response'.body
                /\ StoredData' = StoredData
          /\ response'.body =>
                /\ response'.user # AnonymousUser
                /\ RoleOf(response'.user) \in RolesNamed(response'.view)]_vars

\* A student's POST to delete_learning_outcome of an existing learning
\* outcome was answered by the decorator, and a user without a role was
\* turned away from a teacher's view.
C21_Witness ==
    /\ response.view = "delete_learning_outcome"
    /\ response.method = "POST"
    /\ response.user = "s1"
    /\ response.target \in learning_outcomes
    /\ response.location = "dashboard_redirect"
    /\ ~response.body

\* C25: a POST to login_view logs a user in only if the posted credentials
\* are those of an account and the selected role is the role of the
\* account's profile; with right credentials and another role nobody is
\* logged in and the login page is rendered with a 'not registered' message.
C25_LoginNeedsMatchingRole ==
    [][(response'.view = "login" /\ response'.method = "POST") =>
          LET post == response'.post
              credentials == post.username \in Users /\ post.password = "testpass123"
          IN  /\ session' # session =>
                    /\ credentials
                    /\ RoleOf(post.username) = post.role
                    /\ session' = post.username
              /\ (/\ response'.user = AnonymousUser
                  /\ credentials
                  /\ RoleOf(post.username) # post.role) =>
                    /\ session' = AnonymousUser
                    /\ response'.status = 200
                    /\ response'.location = "login.html"
                    /\ response'.message \in
                         {"This account is not registered as a Student.",
                          "This account is not registered as a Teacher.",
                          "This account is not registered as a Academic_Board."}]_vars

\* The student s1 posted the right password with the role teacher.
C25_Witness ==
    /\ response.view = "login"
    /\ response.method = "POST"
    /\ response.post = [username |-> "s1", password |-> "testpass123", role |-> "teacher"]
    /\ response.status = 200
    /\ session = AnonymousUser

\* C28: every redirect is followed, after finitely many more redirects, by a
\* response that is no redirect.
C28_RedirectsEnd == (response.status = 302) ~> (response.status # 302)


\* The views that write the rows of a course, and the course a request to
\* one of them is about: the course of the URL, or the course of the
\* learning outcome or assessment of the URL.
LearningOutcomeViews == {"edit_learning_outcome", "delete_learning_outcome"}
AssessmentViews == {"edit_assessment", "delete_assessment"}
CourseViews ==
    {"add_learning_outcome", "add_assessment", "add_assessment_grade",
     "connect_assessment_to_lo", "delete_assessment_to_lo"}
RequestCourse(r) ==
    IF r.view \in LearningOutcomeViews THEN IF r.target \in {3, 5} THEN 2 ELSE 1
    ELSE IF r.view \in AssessmentViews THEN IF r.target = 4 THEN 2 ELSE 1
    ELSE r.target
Assigned(teacher, course) ==
    \/ teacher = "t1"
    \/ teacher = "t3" /\ course = 1

\* C22: a teacher's request to create, edit or delete a learning outcome, an
\* assessment, an assessment grade or an AssessmentToLO edge changes the
\* stored rows only if the teacher is assigned to the course; for a course
\* the teacher is not assigned to, the request changes nothing and is
\* answered by a redirect.  (A URL that names no row is answered by 404.)
C22_UnassignedTeacherWritesNothing ==
    [][(/\ response'.view \in LearningOutcomeViews \cup AssessmentViews \cup CourseViews
        /\ response'.user \in Teachers) =>
          /\ StoredData' # StoredData =>
                Assigned(response'.user, RequestCourse(response'))
          /\ (/\ ~Assigned(response'.user, RequestCourse(response'))
              /\ response'.status # 404) =>
                /\ StoredData' = StoredData
                /\ response'.status = 302]_vars

\* The teacher t3, who does not teach course 2, posted the deletion of its
\* learning outcome 3, which has an edge from an assessment of the course.
C22_Witness ==
    /\ response.view = "delete_learning_outcome"
    /\ response.user = "t3"
    /\ response.target = 3
    /\ response.status = 302
    /\ 3 \in learning_outcomes
    /\ <<4, 3>> \in DOMAIN a2lo

\* C23: no row refers to a row that is gone: each AssessmentToLO edge has
\* its assessment and its learning outcome, each LOToPO edge its learning
\* outcome and its program outcome, each assessment grade its assessment.
C23_NoDanglingRows ==
    /\ \A e \in DOMAIN a2lo : e[1] \in assessments /\ e[2] \in learning_outcomes
    /\ \A e \in DOMAIN lo2po : e[1] \in learning_outcomes /\ e[2] \in program_outcomes
    /\ \A g \in DOMAIN agrades : g[1] \in assessments

\* Assessment 1 was just deleted; the edges between the rows that are left
\* are still there.
C23_Witness ==
    /\ response.view = "delete_assessment"
    /\ response.target = 1
    /\ response.status = 302
    /\ 1 \notin assessments
    /\ DOMAIN a2lo = {<<3, 1>>}
    /\ DOMAIN lo2po = {<<1, 1>>, <<1, 2>>}
    /\ agrades = <<>>

\* C30: a board member's request to edit or delete a program outcome, or to
\* create, re-weight or delete a LOToPO edge into a program outcome, changes
\* the stored rows only if the program outcome belongs to the member's board.
C30_OnlyOwnBoardWrites ==
    [][(/\ response'.view \in {"edit_program_outcome", "delete_program_outcome",
                               "connect_lo_to_po", "delete_lo_to_po"}
        /\ response'.user \in Boards
        /\ StoredData' # StoredData) =>
          response'.user = (IF response'.target = 3 THEN "b2" ELSE "b1")]_vars


(***************************************************************************)
(* Properties of the graph payload and the scores in it.                   *)
(***************************************************************************)
\* the (source, target) pairs of the edge list of a payload
PayloadEdges(g) == {<<g.edges[i].source, g.edges[i].target>> : i \in 1..Len(g.edges)}

\* C27: in the payload of get_course_graph_data every edge starts and ends
\* at a node of the same payload's node list.
C27_EdgesJoinPayloadNodes ==
    last_call.fn = "get_course_graph_data" =>
        \A e \in PayloadEdges(last_call.result) :
            /\ e[1] \in NodeIds(last_call.result)
            /\ e[2] \in NodeIds(last_call.result)

\* The edges a score of student s was computed from: the AssessmentToLO
\* edges into the learning outcome from the assessments s has a grade for,
\* and the LOToPO edges into the program outcome from the learning
\* outcomes s has a score for.
UsedEdges(s, node) ==
    IF node.type = "learning_outcome"
    THEN {<<<<"assessment", e[1]>>, <<"lo", e[2]>>>> :
             e \in {d \in DOMAIN a2lo : /\ d[2] = node.id[2]
                                        /\ <<d[1], s>> \in DOMAIN agrades}}
    ELSE {<<<<"lo", e[1]>>, <<"po", e[2]>>>> :
             e \in {d \in DOMAIN lo2po : /\ d[2] = node.id[2]
                                         /\ calculate_lo_score(s, d[1]) # None}}
ScoredNodes(g) ==
    {g.nodes[i] : i \in {j \in 1..Len(g.nodes) : "score" \in DOMAIN g.nodes[j].data}}

\* C29 (as claimed): every edge that the score of a learning-outcome or
\* program-outcome node of the payload was computed from is in the edge
\* list of the same payload.
C29_UsedEdgesInPayload ==
    last_call.fn = "get_course_graph_data" =>
        \A n \in ScoredNodes(last_call.result) :
            UsedEdges(last_call.args[2], n) \subseteq PayloadEdges(last_call.result)

\* C29 (amended): every edge that the score of a node of the payload was
\* computed from and that starts at a node of the same payload, an
\* assessment or a learning outcome of the course, is in the edge list of
\* the payload.
C29_UsedEdgesOfCourseInPayload ==
    last_call.fn = "get_course_graph_data" =>
        \A n \in ScoredNodes(last_call.result) :
            {e \in UsedEdges(last_call.args[2], n) : e[1] \in NodeIds(last_call.result)}
                \subseteq PayloadEdges(last_call.result)

\* The graph of course 1 for a student: learning outcome 1 has a score from
\* two edges of the course, one of weight 0, and program outcome 1 has a
\* score from learning outcomes of both courses.
C29_Witness ==
    /\ last_call.fn = "get_course_graph_data"
    /\ last_call.args = <<1, 1>>
    /\ \E n \in ScoredNodes(last_call.result) :
           /\ n.id = <<"lo", 1>>
           /\ Cardinality(UsedEdges(1, n)) = 2
    /\ \E n \in ScoredNodes(last_call.result) :
           /\ n.id = <<"po", 1>>
           /\ UsedEdges(1, n) = {<<<<"lo", 1>>, <<"po", 1>>>>, <<<<"lo", 3>>, <<"po", 1>>>>}


(***************************************************************************)
(* Properties of execute_safe_db_operations.                               *)
(***************************************************************************)
\* the callback of the call raises: a statement hits a unique constraint, or
\* the callback raises after its statements
CallbackRaises(callback) ==
    operations([a2lo |-> a2lo, descriptions |-> descriptions, raised |-> ""],
               callback, 1).raised
\* the tables after all statements of the callback
CallbackWrites(callback) ==
    LET db == operations([a2lo |-> a2lo, descriptions |-> descriptions, raised |-> ""],
                         [callback EXCEPT !.then = "return"], 1)
    IN  <<db.a2lo, db.descriptions>>
SafeCallStep == last_call'.fn = "execute_safe_db_operations" /\ last_call' # last_call
RolledBack == <<a2lo, descriptions>>' = <<a2lo, descriptions>>

\* C24 (as claimed): if the callback raises, the store is as before the call
\* and the call returns (False, message, None) without propagating; if the
\* callback completes, its writes are kept and the call returns
\* (True, message, callback result).
C24_AllOrNothing ==
    [][SafeCallStep =>
          LET callback == last_call'.args[1]
              result == last_call'.result
          IN  IF CallbackRaises(callback) # ""
              THEN /\ RolledBack
                   /\ result.raised = ""
                   /\ result.returned[1] = FALSE
                   /\ result.returned[3] = None
              ELSE /\ <<a2lo, descriptions>>' = CallbackWrites(callback)
                   /\ result.raised = ""
                   /\ result.returned[1] = TRUE
                   /\ result.returned[3] = <<"rows", Len(callback.statements)>>]_vars

\* C24 (amended): if the callback raises, the store is as before the call,
\* and the call returns (False, message, None) when the exception is of a
\* class under Exception and propagates it otherwise; if the callback
\* completes and the commit succeeds, its writes are kept and the call
\* returns (True, message, callback result); if the callback completes and
\* the commit fails, the store is as before the call and the call returns
\* (False, message, None).
C24_AllOrNothingOfException ==
    [][SafeCallStep =>
          LET callback == last_call'.args[1]
              result == last_call'.result
              raised == CallbackRaises(callback)
              written == CallbackWrites(callback)
              dangling == \E e \in DOMAIN written[1] :
                              e[1] \notin assessments \/ e[2] \notin learning_outcomes
          IN  IF raised \in Exceptions \/ (raised = "" /\ dangling)
              THEN /\ RolledBack
                   /\ result.raised = ""
                   /\ result.returned[1] = FALSE
                   /\ result.returned[3] = None
              ELSE IF raised # ""
              THEN /\ RolledBack
                   /\ result.raised = raised
              ELSE /\ <<a2lo, descriptions>>' = written
                   /\ result.raised = ""
                   /\ result.returned[1] = TRUE
                   /\ result.returned[3] = <<"rows", Len(callback.statements)>>]_vars

\* A callback that updates a description and then inserts an edge was called
\* where the description was "d0" and the edge was there already: the
\* insert raised, the description is "d0" still, and the call returned False.
C24_Witness ==
    /\ last_call.fn = "execute_safe_db_operations"
    /\ Len(last_call.args[1].statements) = 2
    /\ last_call.args[1].statements[1].table = "learningoutcome"
    /\ last_call.args[1].statements[1].value = <<"d1">>
    /\ last_call.args[1].statements[2].table = "assessmenttolo"
    /\ last_call.args[1].statements[2].row = <<1, 1>>
    /\ last_call.args[1].then = "return"
    /\ last_call.result.returned[1] = FALSE
    /\ descriptions[<<"lo", 1>>] = "d0"
    /\ DOMAIN a2lo = {<<1, 1>>}


(***************************************************************************)
(* Properties of writers of Grade rows that run side by side.              *)
(***************************************************************************)
\* the rows of the requests that have arrived
StartedRows == UNION {{writers[w].job.rows[i] : i \in 1..Len(writers[w].job.rows)} :
                         w \in Writers}
\* the values that some request writes for the student
Offered(student) == {r.defaults : r \in {q \in StartedRows : q.student = student}}
AllDone == \A w \in Writers : writers[w].pc = "done"

\* C26: when two imports, or an import and an add_grade submission, upsert
\* the same (student, course, semester, academic_year) side by side, then
\* however their steps interleave there are never two Grade rows of the key,
\* a row always holds the grade, percentage and creator of one of the
\* writers and never fields of both, no row of either request fails and
\* neither request is aborted, and when both have ended the key has exactly
\* one row.
C26_ConcurrentUpserts ==
    /\ \A key \in GradeKeys : Cardinality(StoredUnder(key)) <= 1
    /\ \A k \in DOMAIN grades : grades[k] \in Offered(k[1])
    /\ \A w \in Writers : ~writers[w].raised /\ writers[w].errors = <<>>
    /\ AllDone =>
           \A r \in StartedRows :
               Cardinality(StoredUnder(<<r.student, 1, semester, academic_year>>)) = 1

\* Both requests have ended; add_grade's form was valid, so it was checked
\* before the upload wrote the row of student 1, and the row holds what
\* add_grade wrote, so add_grade wrote it after the upload did.
C26_Witness ==
    /\ AllDone
    /\ writers["w1"].job.rows[1].student = 1
    /\ writers["w2"].job.view = "add_grade"
    /\ writers["w2"].job.assessment_type = "final"
    /\ \E k \in DOMAIN grades :
           /\ k[1] = 1
           /\ grades[k] = writers["w2"].job.rows[1].defaults


====
